---- MODULE Spec2Model ----
(***************************************************************************)
(* Model of the session core of InterviewHelper                            *)
(* (src/frontend/components/snapshot-panel.tsx, component InterviewHelper):*)
(* the sanitizer, the three bounded history buffers, the transcription     *)
(* channel, and the evaluation request coordinator.                        *)
(*                                                                         *)
(* Strings.  A JavaScript string is modelled as a record                   *)
(*     [core |-> <sequence of one-character strings>, pad |-> n]           *)
(* standing for the characters of core followed by n copies of the filler  *)
(* character "#".  "#" is no word character, no white space and occurs in  *)
(* none of the sanitizer's patterns, and every pattern ends in a character *)
(* other than "#", so no match of a pattern reaches into the filler: the   *)
(* string operations below are exact on such strings, and lengths such as  *)
(* 1000, 5000 and 10000 keep their real values.                            *)
(***************************************************************************)
EXTENDS Integers, Sequences, FiniteSets, TLC

VARIABLES
    now,                 \* Date.now(), in ms
    ticks,               \* number of clock advances so far (bounds the model)
    code,                \* useState("")            line 1449
    language,            \* useState("javascript")  line 1450
    isConnected,         \* line 1451
    isPaused,            \* line 1452
    isTranscribing,      \* line 1453 (the speaking indicator)
    snapshots,           \* line 1454
    transcription,       \* line 1455
    feedback,            \* line 1456
    isEvaluating,        \* line 1457
    apiServerConnected,  \* line 1458 (EvaluationAvailability)
    questionType,        \* line 1469
    selectedProblem,     \* line 1470
    customQuestion,      \* line 1471
    sessionStarted,      \* line 1473
    lastApiCall,         \* useRef(0), line 1494
    evals,               \* requestFeedback() invocations suspended at an await
    feedbackTimer,       \* feedbackIntervalRef: next firing time of the interval, 0 when none runs
    sockets,             \* readyState of the WebSocket objects whose handlers can still run
    wsRef,               \* wsRef.current: index into sockets, 0 for null
    retryTimers,         \* pending setTimeout(connectWebSocket, 5000): firing time per slot
    retryRef,            \* connectionRetryRef.current: slot of retryTimers, 0 for null
    speakTimers,         \* pending setTimeout(setIsTranscribing(false), 1000): firing times
    mounted,             \* FALSE once the component has been unmounted
    attemptBit,          \* flips on every invocation of connectWebSocket()
    healthTimer,         \* healthCheckIntervalRef: next firing time of the interval, 0 once cleared
    probes,              \* checkApiServerHealth() invocations suspended at the await: start times
    lastProbe,           \* history: how the last health probe ended
    lastSent,            \* history: the last message sent on the channel (flip changes
                         \*          with every send)
    calls,               \* history: one record per requestFeedback() invocation
    lastMsg,             \* history: what the last run of the onmessage handler did
                         \*          (flip changes with every run)
    lastDone,            \* history: how the last evaluation ended (and the score received)
    logT, logS, logF     \* history: every segment / snapshot / feedback record pushed
                         \*          since the buffers were last cleared

stateVars == <<code, language, isConnected, isPaused, isTranscribing, snapshots,
               transcription, feedback, isEvaluating, apiServerConnected,
               questionType, selectedProblem, customQuestion, sessionStarted>>
connVars  == <<sockets, wsRef, retryTimers, retryRef, speakTimers, attemptBit>>
evalVars  == <<lastApiCall, evals, feedbackTimer>>
histVars  == <<calls, lastMsg, lastDone, logT, logS, logF>>
healthVars == <<healthTimer, probes, lastProbe>>
vars == <<now, ticks, mounted, stateVars, connVars, evalVars, histVars, healthVars, lastSent>>

-----------------------------------------------------------------------------
(* Characters and strings                                                  *)

LowerCase == <<"a","b","c","d","e","f","g","h","i","j","k","l","m",
               "n","o","p","q","r","s","t","u","v","w","x","y","z">>
UpperCase == <<"A","B","C","D","E","F","G","H","I","J","K","L","M",
               "N","O","P","Q","R","S","T","U","V","W","X","Y","Z">>
Digits == {"0","1","2","3","4","5","6","7","8","9"}

Range(f) == {f[i] : i \in DOMAIN f}

WordChars  == Range(LowerCase) \cup Range(UpperCase) \cup Digits \cup {"_"}
SpaceChars == {" ", "\n", "\t"}
LowerOf    == [c \in Range(UpperCase) |->
                  LowerCase[CHOOSE i \in DOMAIN UpperCase : UpperCase[i] = c]]

\* \w of a non-unicode regular expression: [A-Za-z0-9_]
IsWord(c) == c \in WordChars

\* \s, and the characters String.prototype.trim removes (those of the model's alphabet)
IsSpace(c) == c \in SpaceChars

\* canonical form of a character under the regular expression flag i
Lower(c) == IF c \in DOMAIN LowerOf THEN LowerOf[c] ELSE c

\* the one element of a set of one element.  {e(v) : v \in {x}} computes the
\* argument x once and hands its value to e: the functions below use it for
\* what the source holds in a local variable.
Only(S) == CHOOSE v \in S : TRUE

Min(a, b) == IF a < b THEN a ELSE b

\* the pattern pat (lower case) matches s at position i, ignoring case
MatchLit(s, i, pat) ==
    /\ i >= 1
    /\ i + Len(pat) - 1 <= Len(s)
    /\ \A k \in 1..Len(pat) : Lower(s[i + k - 1]) = pat[k]

ScriptOpen  == <<"<","s","c","r","i","p","t">>
ScriptClose == <<"<","/","s","c","r","i","p","t",">">>
JsScheme    == <<"j","a","v","a","s","c","r","i","p","t",":">>
OnPrefix    == <<"o","n">>

\* the least element of a set of positions, 0 for the empty set
Least(S) == IF S = {} THEN 0 ELSE CHOOSE k \in S : \A j \in S : k <= j

\* the greatest element of a set of positions, 0 for the empty set
Greatest(S) == IF S = {} THEN 0 ELSE CHOOSE k \in S : \A j \in S : k >= j

\* the first position j >= i at which </script> starts, 0 when there is none
FirstClose(s, i) == Least({j \in i..Len(s) : MatchLit(s, j, ScriptClose)})

\* /<script\b[^<]*(?:(?!<\/script>)<[^<]*)*<\/script>/i matched at position i:
\* the position of the last character of the match, 0 when there is no match.
\* After "<script" and a word boundary the expression consumes everything up to
\* the first "<" that starts "</script>", which it must then match.
ScriptEnd(s, i) ==
    IF /\ MatchLit(s, i, ScriptOpen)
       /\ i + Len(ScriptOpen) <= Len(s)
       /\ ~IsWord(s[i + Len(ScriptOpen)])
    THEN Only({IF j = 0 THEN 0 ELSE j + Len(ScriptClose) - 1
               : j \in {FirstClose(s, i + Len(ScriptOpen))}})
    ELSE 0

\* /javascript:/i matched at position i
JsEnd(s, i) == IF MatchLit(s, i, JsScheme) THEN i + Len(JsScheme) - 1 ELSE 0

\* the number of word characters of s from position i on
WordRun(s, i) == Least({j \in i..(Len(s) + 1) : j > Len(s) \/ ~IsWord(s[j])}) - i

\* the number of space characters of s from position i on
SpaceRun(s, i) == Least({j \in i..(Len(s) + 1) : j > Len(s) \/ ~IsSpace(s[j])}) - i

\* /on\w+\s*=/i matched at position i.  \w+ and \s* are greedy and the classes
\* \w, \s and "=" are disjoint, so backtracking finds nothing else.
OnEnd(s, i) ==
    IF MatchLit(s, i, OnPrefix)
    THEN Only({IF w >= 1 /\ e <= Len(s) /\ s[e] = "=" THEN e ELSE 0
               : w \in {WordRun(s, i + 2)},
                 e \in {i + 2 + WordRun(s, i + 2) + SpaceRun(s, i + 2 + WordRun(s, i + 2))}})
    ELSE 0

RECURSIVE StripScript(_, _)
\* s.replace(<script regex>/gi, "") from position i on: the leftmost match m at or
\* after i is removed and the search resumes after it
StripScript(s, i) ==
    Only({IF m = 0 THEN SubSeq(s, i, Len(s))
          ELSE SubSeq(s, i, m - 1) \o StripScript(s, ScriptEnd(s, m) + 1)
          : m \in {Least({j \in i..Len(s) : ScriptEnd(s, j) > 0})}})

RECURSIVE StripJs(_, _)
StripJs(s, i) ==
    Only({IF m = 0 THEN SubSeq(s, i, Len(s))
          ELSE SubSeq(s, i, m - 1) \o StripJs(s, JsEnd(s, m) + 1)
          : m \in {Least({j \in i..Len(s) : JsEnd(s, j) > 0})}})

RECURSIVE StripOn(_, _)
StripOn(s, i) ==
    Only({IF m = 0 THEN SubSeq(s, i, Len(s))
          ELSE SubSeq(s, i, m - 1) \o StripOn(s, OnEnd(s, m) + 1)
          : m \in {Least({j \in i..Len(s) : OnEnd(s, j) > 0})}})

\* the three replace calls of sanitizeInput, in the order of the source
StripAll(s) ==
    Only({StripOn(c, 1) : c \in {StripJs(b, 1) : b \in {StripScript(a, 1) : a \in {s}}}})

TrimLeft(text) == Only({SubSeq(s, SpaceRun(s, 1) + 1, Len(s)) : s \in {text}})

TrimRight(text) ==
    Only({SubSeq(s, 1, Greatest({j \in 1..Len(s) : ~IsSpace(s[j])})) : s \in {text}})

Str(s)      == [core |-> s, pad |-> 0]
Padded(s, n) == [core |-> s, pad |-> n]
EmptyStr    == Str(<<>>)

\* String.prototype.length
StrLen(x) == Len(x.core) + x.pad

\* String.prototype.trim
StrTrim(text) ==
    Only({IF x.pad = 0 THEN Str(TrimRight(TrimLeft(x.core)))
          ELSE Padded(TrimLeft(x.core), x.pad) : x \in {text}})

\* String.prototype.substring(0, n)
Substring0(text, n) ==
    Only({IF n <= Len(x.core) THEN Str(SubSeq(x.core, 1, n))
          ELSE Padded(x.core, Min(x.pad, n - Len(x.core))) : x \in {text}})

sanitizeInput(input) ==
    Only({StrTrim([core |-> StripAll(x.core), pad |-> x.pad]) : x \in {input}})

-----------------------------------------------------------------------------
(* JSON.parse, for the texts the channel delivers: a scalar, or a flat      *)
(* object whose values are scalars.  Strings carry no escapes, numbers are  *)
(* integers; nested values are outside the modelled inputs and are refused. *)

Quote == "\""

SkipWs(s, i) == i + SpaceRun(s, i)

\* position of the quote closing a string whose text starts at j, 0 when the
\* string is not closed or holds a character JSON does not allow unescaped
QuoteEnd(s, j) ==
    Only({IF p # 0 /\ s[p] = Quote THEN p ELSE 0
          : p \in {Least({q \in j..Len(s) : s[q] \in {Quote, "\\", "\n", "\t"}})}})

DigitRun(s, i) == Least({j \in i..(Len(s) + 1) : j > Len(s) \/ s[j] \notin Digits}) - i

NoParse == [ok |-> FALSE]

JUndefined == [t |-> "undefined"]
JNull      == [t |-> "null"]
JBool(b)   == [t |-> "bool", b |-> b]
JNum(z)    == [t |-> "num", zero |-> z]
JStr(s)    == [t |-> "str", s |-> s]
JObj(m)    == [t |-> "obj", members |-> m]

IsAt(s, i, lit) == i + Len(lit) - 1 <= Len(s) /\ SubSeq(s, i, i + Len(lit) - 1) = lit

\* a scalar JSON value starting at position i
ParseScalar(s, i) ==
    IF i > Len(s) THEN NoParse
    ELSE IF s[i] = Quote THEN
        LET e == QuoteEnd(s, i + 1)
        IN  IF e = 0 THEN NoParse
            ELSE [ok |-> TRUE, v |-> JStr(SubSeq(s, i + 1, e - 1)), next |-> e + 1]
    ELSE IF IsAt(s, i, <<"t","r","u","e">>) THEN [ok |-> TRUE, v |-> JBool(TRUE), next |-> i + 4]
    ELSE IF IsAt(s, i, <<"f","a","l","s","e">>) THEN [ok |-> TRUE, v |-> JBool(FALSE), next |-> i + 5]
    ELSE IF IsAt(s, i, <<"n","u","l","l">>) THEN [ok |-> TRUE, v |-> JNull, next |-> i + 4]
    ELSE
        LET d0 == IF s[i] = "-" THEN i + 1 ELSE i
            n  == DigitRun(s, d0)
        IN  IF n = 0 \/ (n > 1 /\ s[d0] = "0") THEN NoParse
            ELSE [ok |-> TRUE,
                  v  |-> JNum(\A k \in d0..(d0 + n - 1) : s[k] = "0"),
                  next |-> d0 + n]

RECURSIVE ParseMembers(_, _, _), ParseMember(_, _, _), ParseRest(_, _, _)
\* the members of an object from position i on (a key is expected at i), acc
\* being the members read so far; ends after the closing brace
ParseMembers(s, from, acc) ==
    Only({IF i > Len(s) \/ s[i] # Quote THEN NoParse
          ELSE Only({ParseMember(s, k, acc) : k \in {ParseScalar(s, i)}})
          : i \in {from}})

\* the member whose key k has been read
ParseMember(s, k, acc) ==
    IF ~k.ok THEN NoParse
    ELSE Only({IF c > Len(s) \/ s[c] # ":" THEN NoParse
               ELSE Only({ParseRest(s, v, Append(acc, [k |-> k.v.s, v |-> v.v]))
                          : v \in {ParseScalar(s, SkipWs(s, c + 1))}})
               : c \in {SkipWs(s, k.next)}})

\* what follows the value v of a member: the end of the object or the next member
ParseRest(s, v, members) ==
    IF ~v.ok THEN NoParse
    ELSE Only({IF d > Len(s) THEN NoParse
               ELSE IF s[d] = "}" THEN [ok |-> TRUE, v |-> JObj(m), next |-> d + 1]
               ELSE IF s[d] = "," THEN ParseMembers(s, SkipWs(s, d + 1), m)
               ELSE NoParse
               : d \in {SkipWs(s, v.next)}, m \in {members}})

\* JSON.parse(text): [ok |-> TRUE, v |-> value], or [ok |-> FALSE] for a SyntaxError
ParseValue(s, from) ==
    Only({IF i <= Len(s) /\ s[i] = "{"
          THEN Only({IF j <= Len(s) /\ s[j] = "}"
                     THEN [ok |-> TRUE, v |-> JObj(<<>>), next |-> j + 1]
                     ELSE ParseMembers(s, j, <<>>) : j \in {SkipWs(s, i + 1)}})
          ELSE ParseScalar(s, i)
          : i \in {from}})

JsonParse(x) ==
    IF x.pad > 0 THEN NoParse       \* no JSON text ends in the filler character
    ELSE Only({IF r.ok /\ SkipWs(s, r.next) = Len(s) + 1 THEN [ok |-> TRUE, v |-> r.v]
               ELSE NoParse
               : s \in {x.core}, r \in {ParseValue(x.core, SkipWs(x.core, 1))}})

\* data[key] for a parsed value other than null: the last member of that name
Prop(data, key) ==
    IF data.t = "obj" /\ \E i \in DOMAIN data.members : data.members[i].k = key
    THEN LET i == CHOOSE i \in DOMAIN data.members :
                      /\ data.members[i].k = key
                      /\ \A j \in DOMAIN data.members : data.members[j].k = key => j <= i
         IN  data.members[i].v
    ELSE JUndefined

Truthy(v) ==
    CASE v.t = "str"  -> v.s # <<>>
      [] v.t = "num"  -> ~v.zero
      [] v.t = "bool" -> v.b
      [] v.t = "obj"  -> TRUE
      [] OTHER        -> FALSE

KeyText       == <<"t","e","x","t">>
KeyMessage    == <<"m","e","s","s","a","g","e">>
KeyTranscript == <<"t","r","a","n","s","c","r","i","p","t">>
KeyContent    == <<"c","o","n","t","e","n","t">>
KeyType       == <<"t","y","p","e">>
KeyActive     == <<"a","c","t","i","v","e">>
StatusTag     == <<"t","r","a","n","s","c","r","i","p","t","i","o","n","_",
                   "s","t","a","t","u","s">>

\* data.text || data.message || data.transcript || data.content || ""
TextField(data) ==
    IF Truthy(Prop(data, KeyText)) THEN Prop(data, KeyText)
    ELSE IF Truthy(Prop(data, KeyMessage)) THEN Prop(data, KeyMessage)
    ELSE IF Truthy(Prop(data, KeyTranscript)) THEN Prop(data, KeyTranscript)
    ELSE IF Truthy(Prop(data, KeyContent)) THEN Prop(data, KeyContent)
    ELSE JStr(<<>>)

\* What the onmessage handler makes of event.data (lines 1603-1616):
\*   [kind |-> "status", active |-> b]   the handler sets the indicator and returns
\*   [kind |-> "text", text |-> t]       transcriptionText = t, carried to line 1618
\* A null payload makes data.text throw, and a text field that is no string makes
\* sanitizeInput throw (input.replace is not a function); both are caught by the
\* inner catch, which takes the sanitized raw payload as the text.
Resolve(rawData, parsed) ==
    IF ~parsed.ok THEN [kind |-> "text", text |-> rawData]
    ELSE IF parsed.v.t = "null" THEN [kind |-> "text", text |-> rawData]
    ELSE IF TextField(parsed.v).t # "str" THEN [kind |-> "text", text |-> rawData]
    ELSE IF Prop(parsed.v, KeyType) = JStr(StatusTag)
         THEN [kind |-> "status", active |-> Prop(parsed.v, KeyActive) # JBool(FALSE)]
    ELSE [kind |-> "text", text |-> sanitizeInput(Str(TextField(parsed.v).s))]

ResolveMessage(payload) ==
    Only({Only({Resolve(rawData, parsed) : parsed \in {JsonParse(rawData)}})
          : rawData \in {sanitizeInput(payload)}})

-----------------------------------------------------------------------------
(* Program constants                                                       *)

API_RATE_LIMIT     == 2000     \* line 1495
MaxCodeLen         == 10000    \* lines 1705 and 1810
PayloadCodeLen     == 5000     \* line 1721
MaxSegmentLen      == 1000     \* line 1618
TranscriptKeep     == 49       \* line 1626: prev.slice(-49)
FeedbackKeep       == 4        \* line 1775: prev.slice(0, 4)
SnapshotKeep       == 9        \* line 1783: prev.slice(0, 9)
ListKeep           == 5        \* lines 1763-1769: slice(0, 5)
ListItemLen        == 200      \* lines 1763-1769: substring(0, 200)
AnalysisLen        == 500      \* lines 1771-1772
QuestionLen        == 100      \* line 1692
EVAL_TIMEOUT       == 15000    \* line 1737
RETRY_DELAY        == 5000     \* lines 1593 and 1643
SPEAK_DELAY        == 1000     \* line 1631
HEALTH_INTERVAL    == 10000    \* line 1550
HEALTH_TIMEOUT     == 3000     \* line 1519
FEEDBACK_INTERVAL  == 60000    \* line 1798
ScoreLow           == 0        \* line 1761: Math.max(0, ...)
ScoreHigh          == 10       \* line 1761: Math.min(10, ...)

(* Bounds of the model                                                     *)

StartTime      == 2000   \* Date.now() when the component mounts
TickMs         == 1000   \* the small step of the clock
MaxTicks       == 4      \* clock advances in one behaviour
MaxCalls       == 3      \* requestFeedback() invocations in one behaviour
MaxInFlight    == 2      \* evaluations in flight at once
MaxSegments    == 2      \* transcript segments pushed between two resets
EvalTicks      == 3      \* clock advances while the coordinator is exercised
EvalCalls      == 2      \* requestFeedback() invocations while it is exercised
SchedTicks     == 3      \* clock advances while the scheduler is exercised
SchedCalls     == 3      \* requestFeedback() invocations while it is exercised
BufSegments    == 52     \* transcript segments of a long session
BufCalls       == 12     \* requestFeedback() invocations of a long session
BufTicks       == 12     \* clock advances of a long session
MsgSegments    == 2      \* transcript segments while the message handler is exercised
MsgTicks       == 2      \* clock advances while it is exercised
ScoreCalls     == 2      \* requestFeedback() invocations while scores are exercised
ScoreTicks     == 2      \* clock advances while they are exercised
ConnTicks      == 6      \* clock advances while the channel is left to reconnect
PauseTicks     == 2      \* clock advances while pausing is exercised
PauseCalls     == 2      \* requestFeedback() invocations while it is exercised
ResetTicks     == 1      \* clock advances while resetting is exercised
TeardownTicks  == 2      \* clock advances while the teardown is exercised
HealthTicks    == 2      \* clock advances while the health poller is exercised
QuestionTicks  == 2      \* clock advances while the question views are exercised
QuestionCalls  == 2      \* requestFeedback() invocations while they are exercised
ErrorTicks     == 3      \* clock advances while the error event is exercised
EpochTicks     == 2      \* clock advances while channels succeed one another
OverlapTicks   == 3      \* clock advances while two evaluations overlap
OverlapCalls   == 2      \* requestFeedback() invocations while they overlap
RestartTicks   == 2      \* clock advances while sessions are paused, reset and restarted
ResetCalls     == 1      \* requestFeedback() invocations while it is exercised
MaxSockets     == 2      \* WebSocket objects alive at once
MaxRetryTimers == 2      \* reconnect timers pending at once
MaxProbes      == 2      \* health probes in flight at once
TemplateRestLen == 100   \* length of the fixed remainder of a code template

-----------------------------------------------------------------------------
(* Texts of the program                                                    *)

S_javascript == <<"j","a","v","a","s","c","r","i","p","t">>
S_typescript == <<"t","y","p","e","s","c","r","i","p","t">>
S_python     == <<"p","y","t","h","o","n">>
S_java       == <<"j","a","v","a">>
S_cpp        == <<"c","p","p">>
S_csharp     == <<"c","s","h","a","r","p">>
S_go         == <<"g","o">>
S_rust       == <<"r","u","s","t">>

\* line 1817
allowedLanguages ==
    {Str(S_javascript), Str(S_typescript), Str(S_python), Str(S_java),
     Str(S_cpp), Str(S_csharp), Str(S_go), Str(S_rust)}

S_leetcodePrefix == <<"L","e","e","t","C","o","d","e"," ","P","r","o","b","l","e","m",":"," ">>
S_customPrefix   == <<"C","u","s","t","o","m"," ","Q","u","e","s","t","i","o","n",":"," ">>
S_noQuestion     == <<"N","o"," ","q","u","e","s","t","i","o","n"," ",
                      "s","e","l","e","c","t","e","d">>
S_codeAnalysisDone   == <<"C","o","d","e"," ","a","n","a","l","y","s","i","s"," ",
                          "c","o","m","p","l","e","t","e","d">>
S_speechAnalysisDone == <<"S","p","e","e","c","h"," ","a","n","a","l","y","s","i","s"," ",
                          "c","o","m","p","l","e","t","e","d">>

\* a + b for strings; the left operand carries no filler
StrCat(a, b) == [core |-> a.core \o b.core, pad |-> b.pad]

\* lines 1688-1695
getCurrentQuestion(qType, problem, custom) ==
    IF qType = "leetcode" /\ problem # JNull
    THEN StrCat(Str(S_leetcodePrefix),
                StrCat(problem.title,
                       StrCat(Str(<<" ", "(">>), StrCat(problem.difficulty, Str(<<")">>)))))
    ELSE IF qType = "custom" /\ StrLen(StrTrim(custom)) > 0
    THEN StrCat(Str(S_customPrefix),
                StrCat(Substring0(StrTrim(custom), QuestionLen), Str(<<".", ".", ".">>)))
    ELSE Str(S_noQuestion)

\* lines 1829-1842: templates[language] || templates.javascript, that is
\* "// <question>\n" ("# <question>\n" for python) followed by the fixed remainder
\* of the template.  The remainder holds no pattern of the sanitizer; it is
\* carried as filler of a fixed length.
CodeTemplate(question, lang) ==
    Padded((IF lang = Str(S_python) THEN <<"#", " ">> ELSE <<"/", "/", " ">>)
           \o question.core \o <<"\n">>, TemplateRestLen)

-----------------------------------------------------------------------------
(* Bounded history buffers                                                 *)

\* prev.slice(-n)
SliceLast(q, n) == IF Len(q) <= n THEN q ELSE SubSeq(q, Len(q) - n + 1, Len(q))

\* prev.slice(0, n)
SliceFirst(q, n) == SubSeq(q, 1, Min(n, Len(q)))

\* [...prev.slice(-50), segment]: one segment too many is kept
PushTranscriptWide(prev, segment) == Append(SliceLast(prev, TranscriptKeep + 1), segment)

\* line 1626: [...prev.slice(-49), segment]
PushTranscript(prev, segment) == Append(SliceLast(prev, TranscriptKeep), segment)

\* line 1775: [newFeedback, ...prev.slice(0, 4)]
PushFeedback(prev, item) == <<item>> \o SliceFirst(prev, FeedbackKeep)

\* the snapshot is not inserted
PushSnapshotNot(prev, item) == prev

\* line 1783: [snapshot, ...prev.slice(0, 9)]
PushSnapshot(prev, item) == <<item>> \o SliceFirst(prev, SnapshotKeep)

-----------------------------------------------------------------------------
(* Numbers of a response: a decimal i + f/10 with 0 <= f <= 9, or NaN       *)

NaN == [nan |-> TRUE]
Num(i, f) == [nan |-> FALSE, i |-> i, f |-> f]
Tenths(x) == 10 * x.i + x.f
IsInteger(x) == ~x.nan /\ x.f = 0

\* Number(v) for the value v of result.score:
\*   a number is itself; undefined, an object and a string that is no numeral give
\*   NaN; null and false give 0; true gives 1; a numeral string gives its number
ToNumber(v) ==
    CASE v.t = "num"       -> Num(v.i, v.f)
      [] v.t = "numeral"   -> Num(v.i, v.f)
      [] v.t = "null"      -> Num(0, 0)
      [] v.t = "bool"      -> IF v.b THEN Num(1, 0) ELSE Num(0, 0)
      [] OTHER             -> NaN

\* x || 0 for a number x: NaN and 0 are falsy
OrZero(x) == IF x.nan \/ Tenths(x) = 0 THEN Num(0, 0) ELSE x

MathMin(a, b) == IF Tenths(b) < Tenths(a) THEN b ELSE a
MathMax(a, b) == IF Tenths(b) > Tenths(a) THEN b ELSE a

\* line 1761: Math.max(0, Math.min(10, Number(result.score) || 0))
ClampScore(v) == MathMax(Num(ScoreLow, 0), MathMin(Num(ScoreHigh, 0), OrZero(ToNumber(v))))

-----------------------------------------------------------------------------
(* The response of the evaluation service, as response.json() returns it:  *)
(* JNull, or an object with the fields below.  A field is JUndefined, a     *)
(* number RNum(i, f), JBool, JNull, a string RStr(x), or an array           *)
(* RArr(items); the score may also be a numeral string RNumeral(i, f).      *)

RStr(x)     == [t |-> "string", x |-> x]
RNum(i, f)  == [t |-> "num", i |-> i, f |-> f]
RNumeral(i, f) == [t |-> "numeral", i |-> i, f |-> f]
RArr(items) == [t |-> "arr", items |-> items]

Threw == [ok |-> FALSE]

\* lines 1762-1770: Array.isArray(v) ? v.slice(0, 5).map(s => sanitizeInput(s.substring(0, 200))) : []
\* An item that is no string has no substring method: the map throws.
CoerceList(v) ==
    IF v.t # "arr" THEN [ok |-> TRUE, v |-> <<>>]
    ELSE LET head == SliceFirst(v.items, ListKeep)
         IN  IF \E i \in DOMAIN head : head[i].t # "string" THEN Threw
             ELSE [ok |-> TRUE,
                   v  |-> [i \in DOMAIN head |->
                              sanitizeInput(Substring0(head[i].x, ListItemLen))]]

\* the truth value of a field of the response
FieldTruthy(v) ==
    CASE v.t = "string"  -> StrLen(v.x) > 0
      [] v.t = "numeral" -> TRUE
      [] v.t = "num"     -> Tenths(v) # 0
      [] v.t = "bool"    -> v.b
      [] v.t = "arr"     -> TRUE
      [] OTHER           -> FALSE

\* lines 1771-1772: sanitizeInput((v || fallback).substring(0, 500))
CoerceAnalysis(v, fallback) ==
    IF ~FieldTruthy(v) THEN [ok |-> TRUE, v |-> sanitizeInput(Substring0(Str(fallback), AnalysisLen))]
    ELSE IF v.t = "string" THEN [ok |-> TRUE, v |-> sanitizeInput(Substring0(v.x, AnalysisLen))]
    ELSE Threw

\* lines 1758-1773: the fields of the FeedbackRecord built from result (all but
\* its id), or Threw when building it throws (result.score of null, substring of
\* a value that is no string)
CoerceResponse(result) ==
    IF result = JNull THEN Threw
    ELSE LET st == CoerceList(result.strengths)
             im == CoerceList(result.improvements)
             op == CoerceList(result.optimizations)
             ca == CoerceAnalysis(result.code_analysis, S_codeAnalysisDone)
             sa == CoerceAnalysis(result.speech_analysis, S_speechAnalysisDone)
         IN  IF ~(st.ok /\ im.ok /\ op.ok /\ ca.ok /\ sa.ok) THEN Threw
             ELSE [ok |-> TRUE,
                   v  |-> [score |-> ClampScore(result.score),
                           strengths |-> st.v,
                           improvements |-> im.v,
                           optimizations |-> op.v,
                           codeAnalysis |-> ca.v,
                           speechAnalysis |-> sa.v]]

-----------------------------------------------------------------------------
(* Inputs                                                                  *)

T_x     == <<"x">>
T_hi    == <<"h","i">>
T_ja    == <<"j","a">>
T_vascript == <<"v","a","s","c","r","i","p","t",":">>

\* what the user types into the editor: nothing, a one-line program, a text in
\* which removing "javascript:" joins a new "javascript:", programs of 5001 and
\* 10000 characters, and one of 10001 characters
CodeEmpty   == EmptyStr
CodeShort   == Str(T_x)
CodeNested  == Str(T_ja \o JsScheme \o T_vascript)
CodeLong    == Padded(T_x, PayloadCodeLen)
CodeMax     == Padded(T_x, MaxCodeLen - 1)
CodeTooLong == Padded(T_x, MaxCodeLen)
CodeInputs  == {CodeEmpty, CodeShort, CodeNested, CodeLong, CodeMax, CodeTooLong}

\* texts for the sanitizer: up to three of the fragments below, joined
Fragments == {T_ja, JsScheme, T_vascript,
              <<"<","S","c","r","i","p","t",">">>, ScriptClose,
              <<"o","n">>, <<"c","l","i","c","k"," ","=">>, T_x, <<" ">>}
SanitizeInputs ==
    {Str(a \o b \o c) : a \in Fragments \cup {<<>>}, b \in Fragments \cup {<<>>},
                        c \in Fragments \cup {<<>>}}

TwoSum == [title |-> Str(<<"T","w","o"," ","S","u","m">>),
           difficulty |-> Str(<<"E","a","s","y">>),
           category |-> Str(<<"A","r","r","a","y">>)]

\* what the user types as a custom question: a plain text and one that the
\* sanitizer would change
QuestionInputs == {Str(T_hi), Str(JsScheme \o T_hi)}

LanguageInputs == {Str(S_python), Str(S_javascript), Str(<<"r","u","b","y">>)}

\* payloads of the channel
JsonField(key, value) == <<Quote>> \o key \o <<Quote, ":">> \o value
JsonText(s) == <<Quote>> \o s \o <<Quote>>
JsonObject2(f1, f2) == <<"{">> \o f1 \o <<",">> \o f2 \o <<"}">>
JsonObject3(f1, f2, f3) == <<"{">> \o f1 \o <<",">> \o f2 \o <<",">> \o f3 \o <<"}">>
L_true  == <<"t","r","u","e">>
L_false == <<"f","a","l","s","e">>

\* {"type":"transcription_status","active":false}
MsgStatusOff == Str(JsonObject2(JsonField(KeyType, JsonText(StatusTag)),
                                JsonField(KeyActive, L_false)))
\* {"type":"transcription_status","active":true}
MsgStatusOn  == Str(JsonObject2(JsonField(KeyType, JsonText(StatusTag)),
                                JsonField(KeyActive, L_true)))
\* {"type":"transcription_status","active":false,"text":"hi"}
MsgStatusText == Str(JsonObject3(JsonField(KeyType, JsonText(StatusTag)),
                                 JsonField(KeyActive, L_false),
                                 JsonField(KeyText, JsonText(T_hi))))
\* {"type":"transcription_status","active":false,"text":5}
MsgStatusNum == Str(JsonObject3(JsonField(KeyType, JsonText(StatusTag)),
                                JsonField(KeyActive, L_false),
                                JsonField(KeyText, <<"5">>)))
\* {"text":"hi"}
MsgRecord == Str(<<"{">> \o JsonField(KeyText, JsonText(T_hi)) \o <<"}">>)
\* hi
MsgRaw == Str(T_hi)
\* a raw text of 1000 characters
MsgRawLong == Padded(T_hi, MaxSegmentLen - 2)
\* null
MsgNull == Str(<<"n","u","l","l">>)

Payloads == {MsgStatusOff, MsgStatusOn, MsgStatusText, MsgStatusNum, MsgRecord,
             MsgRaw, MsgRawLong, MsgNull}

\* responses of the evaluation service
Response(score) ==
    [t |-> "obj", score |-> score,
     strengths |-> RArr(<<RStr(Str(T_hi))>>),
     improvements |-> JUndefined,
     optimizations |-> RStr(Str(T_x)),
     code_analysis |-> RStr(Str(T_hi)),
     speech_analysis |-> JUndefined]

Scores == {RNum(15, 0), RNum(0 - 3, 0), RNum(8, 0), RNum(7, 5), RNum(10, 1),
           JUndefined, RStr(Str(T_hi)), RNumeral(7, 0), JBool(TRUE), JNull}

\* a response whose list holds a number, and one whose code_analysis is a number
ResponseBadList == [Response(RNum(8, 0)) EXCEPT !.strengths = RArr(<<RNum(1, 0)>>)]
ResponseBadText == [Response(RNum(8, 0)) EXCEPT !.code_analysis = RNum(1, 0)]

Results == {Response(sc) : sc \in Scores} \cup {JNull, ResponseBadList, ResponseBadText}

-----------------------------------------------------------------------------
(* The pure functions of the program on the texts above, computed once     *)

KnownTexts ==
    LET typed == CodeInputs \cup SanitizeInputs \cup LanguageInputs \cup QuestionInputs
        kept  == {sanitizeInput(v) : v \in typed}
        questions == {getCurrentQuestion("leetcode", TwoSum, EmptyStr)}
                     \cup {getCurrentQuestion("custom", JNull, q) : q \in QuestionInputs}
        templates == {CodeTemplate(q, l) : q \in questions,
                                           l \in {Str(S_javascript), Str(S_python)}}
    IN  typed \cup kept \cup questions \cup templates
              \cup {StrTrim(v) : v \in kept \cup templates}

SanitizeMemo == [x \in KnownTexts |-> sanitizeInput(x)]
ResolveMemo  == [p \in Payloads |-> ResolveMessage(p)]
CoerceMemo   == [r \in Results |-> CoerceResponse(r)]

\* sanitizeInput(x), ResolveMessage(p) and CoerceResponse(r), looked up when the
\* argument is one of the texts above
Sanitized(x) == IF x \in KnownTexts THEN SanitizeMemo[x] ELSE sanitizeInput(x)
Resolved(p)  == IF p \in Payloads THEN ResolveMemo[p] ELSE ResolveMessage(p)
Coerced(r)   == IF r \in Results THEN CoerceMemo[r] ELSE CoerceResponse(r)

-----------------------------------------------------------------------------
(* The clock                                                               *)

Tick(d) ==
    /\ now' = now + d
    /\ ticks' = ticks + 1
    /\ UNCHANGED <<healthVars, lastSent, mounted, stateVars, connVars, evalVars, histVars>>

-----------------------------------------------------------------------------
(* Session scheduler: the auto-request effect, lines 1794-1806.  The effect *)
(* runs again whenever one of its dependencies changed: its cleanup clears  *)
(* the interval and its body starts a new one if the session is active, not *)
(* paused and has a transcript segment.                                     *)

AutoRequestEffect(changed, paused, started, tr) ==
    IF ~changed THEN feedbackTimer
    ELSE IF ~paused /\ started /\ Len(tr) > 0 THEN now + FEEDBACK_INTERVAL
    ELSE 0

-----------------------------------------------------------------------------
(* Evaluation request coordinator: requestFeedback, lines 1698-1791         *)

\* setIsEvaluating(true) moved above the content gate
RequestFeedbackEager(by) ==
    IF now - lastApiCall < API_RATE_LIMIT
    THEN /\ calls' = Append(calls, [t |-> now, by |-> by, outcome |-> "rate"])
         /\ UNCHANGED <<lastApiCall, isEvaluating, evals>>
    ELSE /\ lastApiCall' = now
         /\ IF StrLen(StrTrim(code)) = 0 \/ StrLen(code) > MaxCodeLen
            THEN /\ calls' = Append(calls, [t |-> now, by |-> by, outcome |-> "content"])
                 /\ isEvaluating' = TRUE
                 /\ UNCHANGED evals
            ELSE LET sanitizedCode == Sanitized(StrTrim(code))
                 IN  IF StrLen(sanitizedCode) = 0
                     THEN \* setIsEvaluating(true), return, finally setIsEvaluating(false)
                          /\ isEvaluating' = FALSE
                          /\ calls' = Append(calls, [t |-> now, by |-> by, outcome |-> "empty"])
                          /\ UNCHANGED evals
                     ELSE /\ isEvaluating' = TRUE
                          /\ evals' = evals \cup
                                {[code |-> sanitizedCode,
                                  payloadCode |-> Substring0(sanitizedCode, PayloadCodeLen),
                                  language |-> Sanitized(language),
                                  question |-> getCurrentQuestion(questionType,
                                                   selectedProblem, customQuestion),
                                  start |-> now,
                                  phase |-> "fetch"]}
                          /\ calls' = Append(calls, [t |-> now, by |-> by, outcome |-> "dispatch"])

\* the synchronous part of requestFeedback(), up to the first await
RequestFeedbackBody(by) ==
    IF now - lastApiCall < API_RATE_LIMIT
    THEN /\ calls' = Append(calls, [t |-> now, by |-> by, outcome |-> "rate"])
         /\ UNCHANGED <<lastApiCall, isEvaluating, evals>>
    ELSE /\ lastApiCall' = now
         /\ IF StrLen(StrTrim(code)) = 0 \/ StrLen(code) > MaxCodeLen
            THEN /\ calls' = Append(calls, [t |-> now, by |-> by, outcome |-> "content"])
                 /\ UNCHANGED <<isEvaluating, evals>>
            ELSE LET sanitizedCode == Sanitized(StrTrim(code))
                 IN  IF StrLen(sanitizedCode) = 0
                     THEN \* setIsEvaluating(true), return, finally setIsEvaluating(false)
                          /\ isEvaluating' = FALSE
                          /\ calls' = Append(calls, [t |-> now, by |-> by, outcome |-> "empty"])
                          /\ UNCHANGED evals
                     ELSE /\ isEvaluating' = TRUE
                          /\ evals' = evals \cup
                                {[code |-> sanitizedCode,
                                  payloadCode |-> Substring0(sanitizedCode, PayloadCodeLen),
                                  language |-> Sanitized(language),
                                  question |-> getCurrentQuestion(questionType,
                                                   selectedProblem, customQuestion),
                                  start |-> now,
                                  phase |-> "fetch"]}
                          /\ calls' = Append(calls, [t |-> now, by |-> by, outcome |-> "dispatch"])

\* a click on one of the two feedback buttons of the session view (lines 2226-2229
\* and FeedbackPanel); the button of the panel is disabled only while evaluating
ClickFeedback ==
    /\ mounted /\ sessionStarted /\ ~isEvaluating
    /\ RequestFeedbackBody("button")
    /\ UNCHANGED <<healthVars, lastSent, now, ticks, mounted, code, language, isConnected, isPaused,
                   isTranscribing, snapshots, transcription, feedback,
                   apiServerConnected, questionType, selectedProblem, customQuestion,
                   sessionStarted, feedbackTimer, connVars, lastMsg, lastDone,
                   logT, logS, logF>>

\* the interval of the auto-request effect fires (line 1797)
FeedbackTimerFires ==
    /\ feedbackTimer # 0 /\ now >= feedbackTimer
    /\ RequestFeedbackBody("timer")
    /\ feedbackTimer' = now + FEEDBACK_INTERVAL
    /\ UNCHANGED <<healthVars, lastSent, now, ticks, mounted, code, language, isConnected, isPaused,
                   isTranscribing, snapshots, transcription, feedback,
                   apiServerConnected, questionType, selectedProblem, customQuestion,
                   sessionStarted, connVars, lastMsg, lastDone, logT, logS, logF>>

\* the catch block leaves the availability as it is
EvalEndsSilently(e, why) ==
    /\ evals' = evals \ {e}
    /\ lastDone' = [start |-> e.start, outcome |-> why, score |-> JUndefined]
    /\ IF mounted THEN isEvaluating' = FALSE ELSE UNCHANGED isEvaluating
    /\ UNCHANGED <<apiServerConnected, snapshots, feedback, logS, logF>>

\* an evaluation ends in the catch block (line 1787) and the finally block
EvalEndsFailed(e, why) ==
    /\ evals' = evals \ {e}
    /\ lastDone' = [start |-> e.start, outcome |-> why, score |-> JUndefined]
    /\ IF mounted
       THEN apiServerConnected' = FALSE /\ isEvaluating' = FALSE
       ELSE UNCHANGED <<apiServerConnected, isEvaluating>>
    /\ UNCHANGED <<snapshots, feedback, logS, logF>>

\* Health poller: checkApiServerHealth, lines 1515-1542, and the health check
\* effect, lines 1545-1557, which starts a probe when the component mounts and
\* one every 10 s
ProbeOutcomes == {"ok", "http", "network", "timeout"}

\* the probe ends and leaves the availability as it was unless it succeeded
checkApiServerHealthLax(p, outcome) ==
    /\ p \in probes
    /\ outcome \in ProbeOutcomes
    /\ outcome = "timeout" => now >= p + HEALTH_TIMEOUT
    /\ probes' = probes \ {p}
    /\ lastProbe' = [start |-> p, outcome |-> outcome]
    /\ apiServerConnected' = IF mounted /\ outcome = "ok" THEN TRUE ELSE apiServerConnected
    /\ UNCHANGED <<healthTimer, lastSent, now, ticks, mounted, code, language, isConnected,
                   isPaused, isTranscribing, snapshots, transcription, feedback,
                   isEvaluating, questionType, selectedProblem, customQuestion,
                   sessionStarted, connVars, evalVars, histVars>>

\* the probe started at time p ends: /health answered with an ok status ("ok")
\* or with another one ("http"), fetch rejected ("network"), or the abort of
\* line 1518 came first once 3 s had passed ("timeout")
checkApiServerHealth(p, outcome) ==
    /\ p \in probes
    /\ outcome \in ProbeOutcomes
    /\ outcome = "timeout" => now >= p + HEALTH_TIMEOUT
    /\ probes' = probes \ {p}
    /\ lastProbe' = [start |-> p, outcome |-> outcome]
    /\ apiServerConnected' = IF mounted THEN outcome = "ok" ELSE apiServerConnected
    /\ UNCHANGED <<healthTimer, lastSent, now, ticks, mounted, code, language, isConnected,
                   isPaused, isTranscribing, snapshots, transcription, feedback,
                   isEvaluating, questionType, selectedProblem, customQuestion,
                   sessionStarted, connVars, evalVars, histVars>>

\* the interval of the health check effect fires (lines 1548-1550):
\* checkApiServerHealth() starts
HealthTimerFires ==
    /\ healthTimer # 0 /\ now >= healthTimer
    /\ probes' = probes \cup {now}
    /\ healthTimer' = now + HEALTH_INTERVAL
    /\ UNCHANGED <<lastProbe, lastSent, now, ticks, mounted, stateVars, connVars, evalVars,
                   histVars>>

\* fetch rejects (network error, or the abort of line 1737 once 15 s have passed),
\* or resolves with a status that is not ok (line 1752)
FetchFails(e, why) ==
    /\ e \in evals /\ e.phase = "fetch"
    /\ why \in {"network", "http", "timeout"}
    /\ why = "timeout" => now >= e.start + EVAL_TIMEOUT
    /\ EvalEndsFailed(e, why)
    /\ UNCHANGED <<healthVars, lastSent, now, ticks, mounted, code, language, isConnected, isPaused,
                   isTranscribing, transcription, questionType, selectedProblem,
                   customQuestion, sessionStarted, lastApiCall, feedbackTimer,
                   connVars, calls, lastMsg, logT>>

\* fetch resolves with an ok status: clearTimeout, then await response.json()
FetchSucceeds(e) ==
    /\ e \in evals /\ e.phase = "fetch"
    /\ evals' = (evals \ {e}) \cup {[e EXCEPT !.phase = "body"]}
    /\ UNCHANGED <<healthVars, lastSent, now, ticks, mounted, stateVars, connVars, lastApiCall,
                   feedbackTimer, histVars>>

\* response.json() rejects: the body cannot be read or is no JSON text
BodyFails(e) ==
    /\ e \in evals /\ e.phase = "body"
    /\ EvalEndsFailed(e, "body")
    /\ UNCHANGED <<healthVars, lastSent, now, ticks, mounted, code, language, isConnected, isPaused,
                   isTranscribing, transcription, questionType, selectedProblem,
                   customQuestion, sessionStarted, lastApiCall, feedbackTimer,
                   connVars, calls, lastMsg, logT>>

\* response.json() resolves with result: lines 1758-1785, or the catch block when
\* building the record throws
BodyArrives(e, result) ==
    /\ e \in evals /\ e.phase = "body"
    /\ LET fb == Coerced(result)
       IN  IF ~fb.ok THEN EvalEndsFailed(e, "malformed")
           ELSE LET newFeedback == [id |-> Len(logF) + 1] @@ fb.v
                    snapshot == [id |-> Len(logS) + 1, code |-> e.code, language |-> e.language]
                IN  /\ evals' = evals \ {e}
                    /\ lastDone' = [start |-> e.start, outcome |-> "success",
                                    score |-> result.score]
                    /\ IF mounted
                       THEN /\ feedback' = PushFeedback(feedback, newFeedback)
                            /\ snapshots' = PushSnapshot(snapshots, snapshot)
                            /\ logF' = Append(logF, newFeedback)
                            /\ logS' = Append(logS, snapshot)
                            /\ apiServerConnected' = TRUE
                            /\ isEvaluating' = FALSE
                       ELSE UNCHANGED <<feedback, snapshots, logF, logS,
                                        apiServerConnected, isEvaluating>>
    /\ UNCHANGED <<healthVars, lastSent, now, ticks, mounted, code, language, isConnected, isPaused,
                   isTranscribing, transcription, questionType, selectedProblem,
                   customQuestion, sessionStarted, lastApiCall, feedbackTimer,
                   connVars, calls, lastMsg, logT>>

-----------------------------------------------------------------------------
(* Connection state machine: connectWebSocket and the mount effect,         *)
(* lines 1560-1685.  The refs and timers of the connection are gathered in  *)
(* a record so that the cleanup of the mount effect and the connect that    *)
(* follows it compose.                                                      *)

Conn == [sockets |-> sockets, wsRef |-> wsRef, retryTimers |-> retryTimers,
         retryRef |-> retryRef, isConnected |-> isConnected, attemptBit |-> attemptBit]

FreeSockets(c) == {k \in DOMAIN c.sockets : c.sockets[k] = "none"}
FreeTimers(c)  == {t \in DOMAIN c.retryTimers : c.retryTimers[t] = 0}
Lowest(S) == CHOOSE k \in S : \A j \in S : k <= j

\* no timer is started
ScheduleNothing(c) == c

\* setTimeout(() => connectWebSocket(), 5000), stored in connectionRetryRef
\* (lines 1591-1593 and 1641-1643)
ScheduleRetry(c) ==
    LET t == Lowest(FreeTimers(c))
    IN  [c EXCEPT !.retryTimers[t] = now + RETRY_DELAY, !.retryRef = t]

\* a socket that is closed and no longer referenced can run no handler any more
Forget(socks, k) == IF k # 0 /\ socks[k] = "closed" THEN [socks EXCEPT ![k] = "none"] ELSE socks

\* connectWebSocket(), lines 1560-1645; throws tells whether new WebSocket() throws
connectWebSocket(c, throws) ==
    LET c1 == [c EXCEPT !.attemptBit = ~c.attemptBit]
    IN  IF c1.wsRef # 0 /\ c1.sockets[c1.wsRef] = "open" THEN c1
        ELSE IF throws
        THEN ScheduleRetry([c1 EXCEPT !.isConnected = IF mounted THEN FALSE ELSE c1.isConnected])
        ELSE LET socks == Forget(c1.sockets, c1.wsRef)
                 k     == Lowest({j \in DOMAIN socks : socks[j] = "none"})
             IN  [c1 EXCEPT !.sockets = [socks EXCEPT ![k] = "connecting"], !.wsRef = k]

\* what a call of connectWebSocket needs of the bounded model
CanConnect(c, throws) ==
    \/ c.wsRef # 0 /\ c.sockets[c.wsRef] = "open"
    \/ throws /\ FreeTimers(c) # {}
    \/ ~throws /\ {j \in DOMAIN c.sockets : Forget(c.sockets, c.wsRef)[j] = "none"} # {}

\* the part of the cleanup of the mount effect that concerns the channel,
\* lines 1678-1683: clearTimeout(connectionRetryRef.current), wsRef.current.close()
CleanupChannel(c) ==
    LET timers == IF c.retryRef # 0 THEN [c.retryTimers EXCEPT ![c.retryRef] = 0]
                  ELSE c.retryTimers
        socks  == IF c.wsRef # 0 /\ c.sockets[c.wsRef] \in {"connecting", "open"}
                  THEN [c.sockets EXCEPT ![c.wsRef] = "closing"]
                  ELSE c.sockets
    IN  [c EXCEPT !.retryTimers = timers, !.sockets = socks]

SetConn(c) ==
    /\ sockets' = c.sockets
    /\ wsRef' = c.wsRef
    /\ retryTimers' = c.retryTimers
    /\ retryRef' = c.retryRef
    /\ isConnected' = c.isConnected
    /\ attemptBit' = c.attemptBit

\* wsRef.current.send(JSON.stringify({type, ...})): what lastSent becomes
Sent(type) == [type |-> type, flip |-> ~lastSent.flip]

\* the connection of socket k is established: onopen, lines 1568-1584.  The
\* message goes to the socket wsRef refers to: send() throws on a socket that is
\* still connecting and drops the message on one that is closing or closed.
SocketOpens(k) ==
    /\ sockets[k] = "connecting"
    /\ sockets' = [sockets EXCEPT ![k] = "open"]
    /\ isConnected' = IF mounted THEN TRUE ELSE isConnected
    /\ retryTimers' = IF retryRef # 0 THEN [retryTimers EXCEPT ![retryRef] = 0]
                      ELSE retryTimers
    /\ lastSent' = IF wsRef # 0 /\ sockets'[wsRef] = "open" THEN Sent("session_start")
                   ELSE lastSent
    /\ UNCHANGED <<healthVars, now, ticks, mounted, code, language, isPaused, isTranscribing,
                   snapshots, transcription, feedback, isEvaluating,
                   apiServerConnected, questionType, selectedProblem, customQuestion,
                   sessionStarted, wsRef, retryRef, speakTimers, attemptBit,
                   evalVars, histVars>>

\* the error event also starts the reconnect timer
SocketErrorsRetrying(k) ==
    /\ sockets[k] \in {"connecting", "open"}
    /\ FreeTimers(Conn) # {}
    /\ LET c1 == [Conn EXCEPT !.sockets[k] = "closing",
                              !.isConnected = IF mounted THEN FALSE ELSE isConnected]
       IN  SetConn(ScheduleRetry(c1))
    /\ isTranscribing' = IF mounted THEN FALSE ELSE isTranscribing
    /\ UNCHANGED <<healthVars, lastSent, now, ticks, mounted, code, language, isPaused,
                   snapshots, transcription, feedback, isEvaluating,
                   apiServerConnected, questionType, selectedProblem, customQuestion,
                   sessionStarted, speakTimers, evalVars, histVars>>

\* the error event of socket k taken by itself: onerror, lines 1596-1599.  The
\* socket can neither open nor deliver a message any more; its close event, when
\* the runtime delivers it, is SocketCloses
SocketErrors(k) ==
    /\ sockets[k] \in {"connecting", "open"}
    /\ sockets' = [sockets EXCEPT ![k] = "closing"]
    /\ isConnected' = IF mounted THEN FALSE ELSE isConnected
    /\ isTranscribing' = IF mounted THEN FALSE ELSE isTranscribing
    /\ UNCHANGED <<healthVars, lastSent, now, ticks, mounted, code, language, isPaused,
                   snapshots, transcription, feedback, isEvaluating,
                   apiServerConnected, questionType, selectedProblem, customQuestion,
                   sessionStarted, wsRef, retryTimers, retryRef, speakTimers, attemptBit,
                   evalVars, histVars>>

\* the connection of socket k fails or is closed: the browser fires error (when
\* the close is not clean) and then close in one task; onerror, lines 1596-1599,
\* sets what onclose, lines 1586-1594, sets again
SocketCloses(k) ==
    /\ sockets[k] \in {"connecting", "open", "closing"}
    /\ FreeTimers(Conn) # {}
    /\ LET c1 == [Conn EXCEPT !.sockets[k] = IF k = wsRef THEN "closed" ELSE "none",
                              !.isConnected = IF mounted THEN FALSE ELSE isConnected]
       IN  SetConn(ScheduleRetry(c1))
    /\ isTranscribing' = IF mounted THEN FALSE ELSE isTranscribing
    /\ UNCHANGED <<healthVars, lastSent, now, ticks, mounted, code, language, isPaused,
                   snapshots, transcription, feedback, isEvaluating,
                   apiServerConnected, questionType, selectedProblem, customQuestion,
                   sessionStarted, speakTimers, evalVars, histVars>>

\* a reconnect timer fires: connectWebSocket(), line 1592 or 1642
RetryTimerFires(t, throws) ==
    /\ retryTimers[t] # 0 /\ now >= retryTimers[t]
    /\ LET c1 == [Conn EXCEPT !.retryTimers[t] = 0]
       IN  /\ CanConnect(c1, throws)
           /\ SetConn(connectWebSocket(c1, throws))
    /\ UNCHANGED <<healthVars, lastSent, now, ticks, mounted, code, language, isPaused, isTranscribing,
                   snapshots, transcription, feedback, isEvaluating,
                   apiServerConnected, questionType, selectedProblem, customQuestion,
                   sessionStarted, speakTimers, evalVars, histVars>>

\* handleLanguageChange, lines 1815-1822.  A new language gives connectWebSocket a
\* new identity, so the mount effect runs again: its cleanup (lines 1671-1684),
\* which also clears the interval of the health check effect, then
\* connectWebSocket() (line 1649); the auto-request effect runs again too.  The
\* health check effect depends on checkApiServerHealth only and does not run again.
handleLanguageChange(newLanguage, throws) ==
    /\ mounted
    /\ LET sanitizedLanguage == Sanitized(newLanguage)
       IN  /\ sanitizedLanguage \in allowedLanguages
           /\ sanitizedLanguage # language
           /\ language' = sanitizedLanguage
    /\ LET c1 == CleanupChannel(Conn)
       IN  /\ CanConnect(c1, throws)
           /\ SetConn(connectWebSocket(c1, throws))
    /\ feedbackTimer' = AutoRequestEffect(TRUE, isPaused, sessionStarted, transcription)
    /\ healthTimer' = 0
    /\ UNCHANGED <<probes, lastProbe, lastSent, now, ticks, mounted, code, isPaused, isTranscribing,
                   snapshots, transcription, feedback, isEvaluating,
                   apiServerConnected, questionType, selectedProblem, customQuestion,
                   sessionStarted, speakTimers, lastApiCall, evals, histVars>>

\* the component unmounts: the cleanups of the effects, lines 1671-1684 and 1801-1805
Unmount ==
    /\ mounted
    /\ mounted' = FALSE
    /\ SetConn(CleanupChannel(Conn))
    /\ feedbackTimer' = 0
    /\ healthTimer' = 0
    /\ UNCHANGED <<probes, lastProbe, lastSent, now, ticks, code, language, isPaused, isTranscribing,
                   snapshots, transcription, feedback, isEvaluating,
                   apiServerConnected, questionType, selectedProblem, customQuestion,
                   sessionStarted, speakTimers, lastApiCall, evals, histVars>>

\* socket k delivers a message: onmessage, lines 1601-1636
OnMessage(k, payload) ==
    /\ sockets[k] = "open"
    /\ LET r == Resolved(payload)
       IN  IF r.kind = "status"
           THEN /\ isTranscribing' = IF mounted THEN r.active ELSE isTranscribing
                /\ lastMsg' = [payload |-> payload, did |-> "status", flip |-> ~lastMsg.flip]
                /\ UNCHANGED <<transcription, logT, speakTimers, feedbackTimer>>
           ELSE IF StrLen(r.text) > 0 /\ StrLen(r.text) < MaxSegmentLen
           THEN LET segment == [id |-> Len(logT) + 1, text |-> r.text]
                IN  /\ lastMsg' = [payload |-> payload, did |-> "segment", flip |-> ~lastMsg.flip]
                    /\ speakTimers' = speakTimers \cup {now + SPEAK_DELAY}
                    /\ IF mounted
                       THEN /\ transcription' = PushTranscript(transcription, segment)
                            /\ logT' = Append(logT, segment)
                            /\ isTranscribing' = TRUE
                            /\ feedbackTimer' = AutoRequestEffect(TRUE, isPaused, sessionStarted,
                                                                  transcription')
                       ELSE UNCHANGED <<transcription, logT, isTranscribing, feedbackTimer>>
           ELSE /\ lastMsg' = [payload |-> payload, did |-> "none", flip |-> ~lastMsg.flip]
                /\ UNCHANGED <<transcription, logT, isTranscribing, speakTimers,
                               feedbackTimer>>
    /\ UNCHANGED <<healthVars, lastSent, now, ticks, mounted, code, language, isConnected, isPaused,
                   snapshots, feedback, isEvaluating, apiServerConnected,
                   questionType, selectedProblem, customQuestion, sessionStarted,
                   sockets, wsRef, retryTimers, retryRef, attemptBit,
                   lastApiCall, evals, calls, lastDone, logS, logF>>

\* the timeout of line 1629 fires: setIsTranscribing(false)
SpeakTimerFires(d) ==
    /\ d \in speakTimers /\ now >= d
    /\ speakTimers' = speakTimers \ {d}
    /\ isTranscribing' = IF mounted THEN FALSE ELSE isTranscribing
    /\ UNCHANGED <<healthVars, lastSent, now, ticks, mounted, code, language, isConnected, isPaused,
                   snapshots, transcription, feedback, isEvaluating,
                   apiServerConnected, questionType, selectedProblem, customQuestion,
                   sessionStarted, sockets, wsRef, retryTimers, retryRef, attemptBit,
                   evalVars, histVars>>

-----------------------------------------------------------------------------
(* User actions                                                            *)

\* the editor reports a change: handleCodeChange, lines 1808-1813
handleCodeChange(value) ==
    /\ mounted /\ sessionStarted
    /\ LET sanitizedValue == Sanitized(value)
           newCode == IF StrLen(sanitizedValue) <= MaxCodeLen THEN sanitizedValue ELSE code
       IN  /\ code' = newCode
           /\ feedbackTimer' = AutoRequestEffect(newCode # code, isPaused, sessionStarted,
                                                 transcription)
    /\ UNCHANGED <<healthVars, lastSent, now, ticks, mounted, language, isConnected, isPaused, isTranscribing,
                   snapshots, transcription, feedback, isEvaluating,
                   apiServerConnected, questionType, selectedProblem, customQuestion,
                   sessionStarted, connVars, lastApiCall, evals, histVars>>

\* the question selection view: a problem is picked, the kind of question is
\* switched, the custom question is typed (line 2097: stored as typed)
SelectProblem(problem) ==
    /\ mounted /\ ~sessionStarted
    /\ selectedProblem' = problem
    /\ UNCHANGED <<healthVars, lastSent, now, ticks, mounted, code, language, isConnected, isPaused,
                   isTranscribing, snapshots, transcription, feedback, isEvaluating,
                   apiServerConnected, questionType, customQuestion, sessionStarted,
                   connVars, evalVars, histVars>>

SetQuestionType(qType) ==
    /\ mounted /\ ~sessionStarted
    /\ questionType' = qType
    /\ UNCHANGED <<healthVars, lastSent, now, ticks, mounted, code, language, isConnected, isPaused,
                   isTranscribing, snapshots, transcription, feedback, isEvaluating,
                   apiServerConnected, selectedProblem, customQuestion, sessionStarted,
                   connVars, evalVars, histVars>>

TypeCustomQuestion(value) ==
    /\ mounted /\ ~sessionStarted /\ questionType = "custom"
    /\ customQuestion' = value
    /\ UNCHANGED <<healthVars, lastSent, now, ticks, mounted, code, language, isConnected, isPaused,
                   isTranscribing, snapshots, transcription, feedback, isEvaluating,
                   apiServerConnected, questionType, selectedProblem, sessionStarted,
                   connVars, evalVars, histVars>>

\* handleStartSession, lines 1824-1842
handleStartSession ==
    /\ mounted /\ ~sessionStarted
    /\ \/ questionType = "leetcode" /\ selectedProblem # JNull
       \/ questionType = "custom" /\ StrLen(StrTrim(customQuestion)) > 0
    /\ sessionStarted' = TRUE
    /\ code' = CodeTemplate(getCurrentQuestion(questionType, selectedProblem, customQuestion),
                             language)
    /\ feedbackTimer' = AutoRequestEffect(TRUE, isPaused, TRUE, transcription)
    /\ UNCHANGED <<healthVars, lastSent, now, ticks, mounted, language, isConnected, isPaused, isTranscribing,
                   snapshots, transcription, feedback, isEvaluating,
                   apiServerConnected, questionType, selectedProblem, customQuestion,
                   connVars, lastApiCall, evals, histVars>>

\* the interval of the scheduler survives the reset
handleResetKeepingTimer ==
    /\ mounted /\ sessionStarted
    /\ code' = EmptyStr
    /\ snapshots' = <<>>
    /\ transcription' = <<>>
    /\ feedback' = <<>>
    /\ sessionStarted' = FALSE
    /\ selectedProblem' = JNull
    /\ customQuestion' = EmptyStr
    /\ feedbackTimer' = feedbackTimer
    /\ logT' = <<>> /\ logS' = <<>> /\ logF' = <<>>
    /\ UNCHANGED <<healthVars, lastSent, now, ticks, mounted, language, isConnected, isPaused, isTranscribing,
                   isEvaluating, apiServerConnected, questionType,
                   connVars, lastApiCall, evals, calls, lastMsg, lastDone>>

\* the reset also runs the cleanup of the channel
handleResetDisconnecting ==
    /\ mounted /\ sessionStarted
    /\ code' = EmptyStr
    /\ snapshots' = <<>>
    /\ transcription' = <<>>
    /\ feedback' = <<>>
    /\ sessionStarted' = FALSE
    /\ selectedProblem' = JNull
    /\ customQuestion' = EmptyStr
    /\ feedbackTimer' = AutoRequestEffect(TRUE, isPaused, FALSE, <<>>)
    /\ SetConn([CleanupChannel(Conn) EXCEPT !.isConnected = FALSE])
    /\ logT' = <<>> /\ logS' = <<>> /\ logF' = <<>>
    /\ UNCHANGED <<healthVars, lastSent, now, ticks, mounted, language, isPaused, isTranscribing,
                   isEvaluating, apiServerConnected, questionType,
                   speakTimers, lastApiCall, evals, calls, lastMsg, lastDone>>

\* handleReset, lines 1844-1853
handleReset ==
    /\ mounted /\ sessionStarted
    /\ code' = EmptyStr
    /\ snapshots' = <<>>
    /\ transcription' = <<>>
    /\ feedback' = <<>>
    /\ sessionStarted' = FALSE
    /\ selectedProblem' = JNull
    /\ customQuestion' = EmptyStr
    /\ feedbackTimer' = AutoRequestEffect(TRUE, isPaused, FALSE, <<>>)
    /\ logT' = <<>> /\ logS' = <<>> /\ logF' = <<>>
    /\ UNCHANGED <<healthVars, lastSent, now, ticks, mounted, language, isConnected, isPaused, isTranscribing,
                   isEvaluating, apiServerConnected, questionType,
                   connVars, lastApiCall, evals, calls, lastMsg, lastDone>>

\* pausing also drops the evaluations in flight
togglePauseCancelling ==
    /\ mounted /\ sessionStarted
    /\ isPaused' = ~isPaused
    /\ feedbackTimer' = AutoRequestEffect(TRUE, ~isPaused, sessionStarted, transcription)
    /\ lastSent' = IF wsRef # 0 /\ sockets[wsRef] = "open"
                   THEN Sent(IF isPaused THEN "resume_session" ELSE "pause_session")
                   ELSE lastSent
    /\ evals' = IF isPaused THEN evals ELSE {}
    /\ isEvaluating' = (isPaused /\ isEvaluating)
    /\ UNCHANGED <<healthVars, now, ticks, mounted, code, language, isConnected, isTranscribing,
                   snapshots, transcription, feedback,
                   apiServerConnected, questionType, selectedProblem, customQuestion,
                   sessionStarted, connVars, lastApiCall, histVars>>

\* togglePause, lines 1855-1866
togglePause ==
    /\ mounted /\ sessionStarted
    /\ isPaused' = ~isPaused
    /\ feedbackTimer' = AutoRequestEffect(TRUE, ~isPaused, sessionStarted, transcription)
    /\ lastSent' = IF wsRef # 0 /\ sockets[wsRef] = "open"
                   THEN Sent(IF isPaused THEN "resume_session" ELSE "pause_session")
                   ELSE lastSent
    /\ UNCHANGED <<healthVars, now, ticks, mounted, code, language, isConnected, isTranscribing,
                   snapshots, transcription, feedback, isEvaluating,
                   apiServerConnected, questionType, selectedProblem, customQuestion,
                   sessionStarted, connVars, lastApiCall, evals, histVars>>

-----------------------------------------------------------------------------
(* The state after the component has mounted: the state of lines 1449-1478  *)
(* and the first connectWebSocket() of the mount effect (line 1649)         *)

Init ==
    /\ now = StartTime
    /\ ticks = 0
    /\ mounted = TRUE
    /\ code = EmptyStr
    /\ language = Str(S_javascript)
    /\ isConnected = FALSE
    /\ isPaused = FALSE
    /\ isTranscribing = FALSE
    /\ snapshots = <<>>
    /\ transcription = <<>>
    /\ feedback = <<>>
    /\ isEvaluating = FALSE
    /\ apiServerConnected = FALSE
    /\ questionType = "leetcode"
    /\ selectedProblem = JNull
    /\ customQuestion = EmptyStr
    /\ sessionStarted = FALSE
    /\ lastApiCall = 0
    /\ evals = {}
    /\ feedbackTimer = 0
    /\ sockets = [k \in 1..MaxSockets |-> IF k = 1 THEN "connecting" ELSE "none"]
    /\ wsRef = 1
    /\ retryTimers = [t \in 1..MaxRetryTimers |-> 0]
    /\ retryRef = 0
    /\ speakTimers = {}
    /\ attemptBit = TRUE
    /\ calls = <<>>
    /\ lastMsg = [payload |-> EmptyStr, did |-> "none", flip |-> FALSE]
    /\ lastDone = [start |-> 0, outcome |-> "none", score |-> JUndefined]
    /\ logT = <<>> /\ logS = <<>> /\ logF = <<>>
    /\ healthTimer = StartTime + HEALTH_INTERVAL
    /\ probes = {StartTime}
    /\ lastProbe = [start |-> 0, outcome |-> "none"]
    /\ lastSent = [type |-> "none", flip |-> FALSE]

(* The program                                                             *)

Advance(steps, maxTicks) == \E d \in steps : ticks < maxTicks /\ Tick(d)
EditCode(texts) == \E v \in texts : handleCodeChange(v)
PickProblem   == SelectProblem(TwoSum)
SwitchKind    == \E q \in {"leetcode", "custom"} : SetQuestionType(q)
TypeQuestion  == \E v \in QuestionInputs : TypeCustomQuestion(v)
ChangeLanguage == \E l \in LanguageInputs, th \in BOOLEAN : handleLanguageChange(l, th)
Click(maxCalls) ==
    Len(calls) < maxCalls /\ Cardinality(evals) < MaxInFlight /\ ClickFeedback
AutoRequest(maxCalls) ==
    Len(calls) < maxCalls /\ Cardinality(evals) < MaxInFlight /\ FeedbackTimerFires
FetchFailure  == \E e \in evals, why \in {"network", "http", "timeout"} : FetchFails(e, why)
FetchSuccess  == \E e \in evals : FetchSucceeds(e)
BodyFailure   == \E e \in evals : BodyFails(e)
BodySuccess(results) == \E e \in evals, r \in results : BodyArrives(e, r)
Opened        == \E k \in 1..MaxSockets : SocketOpens(k)
Closed        == \E k \in 1..MaxSockets : SocketCloses(k)
Errored       == \E k \in 1..MaxSockets : SocketErrors(k)
Retry(outcomes) == \E t \in 1..MaxRetryTimers, th \in outcomes : RetryTimerFires(t, th)
Message(payloads, max) ==
    \E k \in 1..MaxSockets, p \in payloads : Len(logT) < max /\ OnMessage(k, p)
SpeakTimeout  == \E d \in speakTimers : SpeakTimerFires(d)
HealthCheck(outcomes) == \E p \in probes, o \in outcomes : checkApiServerHealth(p, o)
HealthPoll    == Cardinality(probes) < MaxProbes /\ HealthTimerFires

AllSteps == {TickMs, RETRY_DELAY, FEEDBACK_INTERVAL}

Next ==
    \/ Advance(AllSteps, MaxTicks)
    \/ EditCode({CodeShort, CodeTooLong})
    \/ PickProblem
    \/ SwitchKind
    \/ TypeQuestion
    \/ handleStartSession
    \/ handleReset
    \/ togglePause
    \/ ChangeLanguage
    \/ Unmount
    \/ Click(MaxCalls)
    \/ AutoRequest(MaxCalls)
    \/ FetchFailure
    \/ FetchSuccess
    \/ BodyFailure
    \/ BodySuccess({Response(RNum(8, 0))})
    \/ Opened
    \/ Closed
    \/ Retry(BOOLEAN)
    \/ Message({MsgRaw}, MaxSegments)
    \/ SpeakTimeout
    \/ HealthPoll
    \/ HealthCheck(ProbeOutcomes)

Spec == Init /\ [][Next]_vars

\* The sanitizer at work on what is typed into the editor
NextSanitize ==
    \/ PickProblem
    \/ handleStartSession
    \/ EditCode(SanitizeInputs)

SpecSanitize == Init /\ [][NextSanitize]_vars

\* The evaluation request coordinator at work: the user starts a session, edits
\* and clicks the feedback button, the evaluation service answers or fails
EvalSteps == {TickMs, EVAL_TIMEOUT}

NextEval ==
    \/ Advance(EvalSteps, EvalTicks)
    \/ EditCode({CodeEmpty, CodeNested, CodeLong, CodeTooLong})
    \/ PickProblem
    \/ handleStartSession
    \/ Click(EvalCalls)
    \/ FetchFailure
    \/ FetchSuccess
    \/ BodyFailure
    \/ BodySuccess({Response(RNum(8, 0)), JNull})
    \/ HealthCheck({"ok", "network"})

SpecEval == Init /\ [][NextEval]_vars

\* The rate gate between the feedback button and the session scheduler: the
\* channel delivers a transcript segment, so that a started session has its
\* timer; the button is clicked and the timer fires
SchedSteps == {TickMs, FEEDBACK_INTERVAL}

NextSched ==
    \/ Advance(SchedSteps, SchedTicks)
    \/ EditCode({CodeNested})
    \/ PickProblem
    \/ handleStartSession
    \/ Opened
    \/ Message({MsgRaw}, 1)
    \/ Click(SchedCalls)
    \/ AutoRequest(SchedCalls)
    \/ FetchFailure
    \/ FetchSuccess
    \/ BodySuccess({Response(RNum(8, 0))})

SpecSched == Init /\ [][NextSched]_vars

\* The history buffers in a long session: the channel delivers more segments
\* than the transcript keeps before the clock first advances, the user waits out
\* the rate limit between two clicks, every evaluation succeeds, and the
\* session is reset at any moment
Burst == ticks = 0 /\ Message({MsgRaw}, BufSegments)
PatientClick == now - lastApiCall >= API_RATE_LIMIT /\ Click(BufCalls)
Wait == evals = {} /\ lastApiCall = now /\ Advance({API_RATE_LIMIT}, BufTicks)

NextBuf ==
    \/ Opened
    \/ Burst
    \/ PickProblem
    \/ handleStartSession
    \/ handleReset
    \/ PatientClick
    \/ Wait
    \/ FetchSuccess
    \/ BodySuccess({Response(RNum(8, 0))})

SpecBuf == Init /\ [][NextBuf]_vars

\* The message handler at work on every kind of payload
NextMsg ==
    \/ Advance({TickMs}, MsgTicks)
    \/ Opened
    \/ Message(Payloads, MsgSegments)
    \/ SpeakTimeout

SpecMsg == Init /\ [][NextMsg]_vars

\* The evaluation service answers with every kind of score
NextScore ==
    \/ Advance({API_RATE_LIMIT}, ScoreTicks)
    \/ PickProblem
    \/ handleStartSession
    \/ Click(ScoreCalls)
    \/ FetchSuccess
    \/ BodySuccess(Results)

SpecScore == Init /\ [][NextScore]_vars

\* The channel is left to itself and the server does not recover: it accepts a
\* connection only before the first close, every socket is closed in the end,
\* and nothing tears the channel down.  Time passes and the timers that are due
\* fire.
ConnSteps == {TickMs, RETRY_DELAY}
FirstOpen == retryRef = 0 /\ Opened

NextConn ==
    \/ Advance(ConnSteps, ConnTicks)
    \/ FirstOpen
    \/ Closed
    \/ Retry(BOOLEAN)

SpecConn ==
    /\ Init /\ [][NextConn]_vars
    /\ WF_vars(Advance(ConnSteps, ConnTicks))
    /\ WF_vars(Closed)
    /\ WF_vars(Retry(BOOLEAN))

\* A session that is paused and resumed while the channel opens and closes,
\* segments arrive and evaluations run
NextPause ==
    \/ Advance({FEEDBACK_INTERVAL}, PauseTicks)
    \/ PickProblem
    \/ handleStartSession
    \/ togglePause
    \/ Opened
    \/ Closed
    \/ Message({MsgRaw}, 1)
    \/ Click(PauseCalls)
    \/ AutoRequest(PauseCalls)
    \/ FetchSuccess
    \/ BodySuccess({Response(RNum(8, 0))})

SpecPause == Init /\ [][NextPause]_vars

\* Sessions that are started and reset while the channel opens, closes and
\* reconnects, segments arrive and evaluations run
NextReset ==
    \/ Advance({RETRY_DELAY, FEEDBACK_INTERVAL}, ResetTicks)
    \/ PickProblem
    \/ handleStartSession
    \/ handleReset
    \/ Opened
    \/ Closed
    \/ Retry({FALSE})
    \/ Message({MsgRaw}, 1)
    \/ Click(ResetCalls)
    \/ AutoRequest(ResetCalls)
    \/ FetchSuccess
    \/ BodySuccess({Response(RNum(8, 0))})

SpecReset == Init /\ [][NextReset]_vars

\* The view is torn down at any moment of a session while the channel opens,
\* closes and reconnects, the health poller runs and the scheduler fires
NextTeardown ==
    \/ Advance({RETRY_DELAY, FEEDBACK_INTERVAL}, TeardownTicks)
    \/ PickProblem
    \/ handleStartSession
    \/ Unmount
    \/ Opened
    \/ Closed
    \/ Retry({FALSE})
    \/ Message({MsgRaw}, 1)
    \/ HealthPoll
    \/ HealthCheck({"ok"})
    \/ AutoRequest(1)
    \/ FetchSuccess
    \/ BodySuccess({Response(RNum(8, 0))})

SpecTeardown == Init /\ [][NextTeardown]_vars

\* The health poller while the channel opens and closes, the language is
\* changed to python, a session is started and an evaluation fails
NextHealth ==
    \/ Advance({HEALTH_TIMEOUT, HEALTH_INTERVAL}, HealthTicks)
    \/ HealthPoll
    \/ HealthCheck(ProbeOutcomes)
    \/ handleLanguageChange(Str(S_python), FALSE)
    \/ Opened
    \/ Closed
    \/ PickProblem
    \/ handleStartSession
    \/ Click(1)
    \/ FetchFailure

SpecHealth == Init /\ [][NextHealth]_vars

\* The question is chosen or typed, a session is started and reset, the code
\* is edited and evaluations are requested
NextQuestion ==
    \/ Advance({API_RATE_LIMIT}, QuestionTicks)
    \/ PickProblem
    \/ SwitchKind
    \/ TypeQuestion
    \/ handleStartSession
    \/ handleReset
    \/ EditCode({CodeShort, CodeNested})
    \/ Click(QuestionCalls)
    \/ FetchSuccess
    \/ BodySuccess({Response(RNum(8, 0))})

SpecQuestion == Init /\ [][NextQuestion]_vars

\* The channel when the error event and the close event are taken one by one
NextError ==
    \/ Advance({RETRY_DELAY}, ErrorTicks)
    \/ Opened
    \/ Errored
    \/ Closed
    \/ Retry({FALSE})
    \/ Message({MsgRaw}, 1)

SpecError == Init /\ [][NextError]_vars

\* Channels succeed one another: the language is changed to python, sockets
\* open and close, reconnect timers fire and a segment arrives
NextEpoch ==
    \/ Advance({RETRY_DELAY}, EpochTicks)
    \/ handleLanguageChange(Str(S_python), FALSE)
    \/ Opened
    \/ Closed
    \/ Retry({FALSE})
    \/ Message({MsgRaw}, 1)

SpecEpoch == Init /\ [][NextEpoch]_vars

\* The button is clicked shortly before the interval of the scheduler fires:
\* the clock moves by 2 s or by 58 s, so that a click can come 2 s before a
\* firing of the interval, and never moves past the time at which the interval
\* or the abort timer of an evaluation is due: these fire on time
NextOverlap ==
    \/ /\ Advance({API_RATE_LIMIT, FEEDBACK_INTERVAL - API_RATE_LIMIT}, OverlapTicks)
       /\ feedbackTimer # 0 => now' <= feedbackTimer
       /\ \A e \in evals : now' <= e.start + EVAL_TIMEOUT
    \/ PickProblem
    \/ handleStartSession
    \/ Opened
    \/ Message({MsgRaw}, 1)
    \/ Click(OverlapCalls)
    \/ AutoRequest(OverlapCalls)
    \/ FetchFailure
    \/ FetchSuccess
    \/ BodySuccess({Response(RNum(8, 0))})

SpecOverlap == Init /\ [][NextOverlap]_vars

\* Sessions are started, paused, resumed and reset while segments arrive and
\* the interval of the scheduler fires
NextRestart ==
    \/ Advance({FEEDBACK_INTERVAL}, RestartTicks)
    \/ PickProblem
    \/ handleStartSession
    \/ togglePause
    \/ handleReset
    \/ Opened
    \/ Message({MsgRaw}, 1)
    \/ AutoRequest(1)

SpecRestart == Init /\ [][NextRestart]_vars

\* The coordinator with time passing and the abort timer of line 1737 firing
\* when it is due.  Nothing makes the network answer.
FetchTimeout == \E e \in evals : FetchFails(e, "timeout")

NextDone ==
    \/ Advance(EvalSteps, EvalTicks)
    \/ PickProblem
    \/ handleStartSession
    \/ Click(EvalCalls)
    \/ FetchFailure
    \/ FetchSuccess
    \/ BodyFailure
    \/ BodySuccess({Response(RNum(8, 0))})

SpecDone ==
    /\ Init /\ [][NextDone]_vars
    /\ WF_vars(Advance(EvalSteps, EvalTicks))
    /\ WF_vars(FetchTimeout)

-----------------------------------------------------------------------------
(* Properties                                                              *)

\* the newest n entries of a log, newest first
Newest(log, n) == [i \in 1..Min(Len(log), n) |-> log[Len(log) - i + 1]]

\* C1: the transcript buffer holds at most 50 segments, the snapshot buffer at
\* most 10 and the feedback buffer at most 5, and each holds exactly the most
\* recently inserted items (since the buffers were last cleared): the transcript
\* in arrival order, the two others newest first.
C1_BuffersBounded ==
    /\ Len(transcription) <= 50
    /\ Len(snapshots) <= 10
    /\ Len(feedback) <= 5
    /\ transcription = SliceLast(logT, 50)
    /\ snapshots = Newest(logS, 10)
    /\ feedback = Newest(logF, 5)

\* more than 50 segments, 10 snapshots and 5 feedback records have been inserted
C1_Evicted ==
    /\ Len(logT) > 50
    /\ Len(logS) > 10
    /\ Len(logF) > 5

\* the code of a call passes the content gate and the rate gate lets the call through
Accepted(c) == c.outcome \in {"empty", "dispatch"}

\* C2: any two dispatches start at least 2000 ms apart, and two calls made
\* within 2000 ms of each other, the first of which the rate gate lets through
\* with code that passes the content gate, produce exactly one dispatch.
C2_OneDispatch ==
    /\ \A i, j \in DOMAIN calls :
          (i < j /\ calls[i].outcome = "dispatch" /\ calls[j].outcome = "dispatch")
              => calls[j].t - calls[i].t >= API_RATE_LIMIT
    /\ \A i \in DOMAIN calls :
          (/\ i + 1 \in DOMAIN calls
           /\ calls[i + 1].t - calls[i].t < API_RATE_LIMIT
           /\ Accepted(calls[i]))
              => Cardinality({k \in {i, i + 1} : calls[k].outcome = "dispatch"}) = 1

\* C3: a call of requestFeedback() made while the code is empty after trimming
\* or longer than 10000 characters dispatches nothing, leaves the evaluating
\* flag as it is (never true because of the call), and leaves the three buffers
\* and the availability unchanged.
C3_ContentGate ==
    [][(/\ Len(calls') = Len(calls) + 1
        /\ (StrLen(StrTrim(code)) = 0 \/ StrLen(code) > MaxCodeLen))
          => /\ evals' = evals
             /\ calls'[Len(calls')].outcome # "dispatch"
             /\ isEvaluating' = isEvaluating
             /\ UNCHANGED <<transcription, snapshots, feedback, apiServerConnected>>]_vars

\* requestFeedback() has been called with empty code and the rate gate open
C3_Rejected ==
    /\ calls # <<>>
    /\ calls[Len(calls)].outcome = "content"
    /\ StrLen(StrTrim(code)) = 0
    /\ lastApiCall = calls[Len(calls)].t

InRange(x) == ~x.nan /\ Tenths(x) >= 10 * ScoreLow /\ Tenths(x) <= 10 * ScoreHigh

\* C4: every stored FeedbackRecord has 0 <= score <= 10; a response score above
\* 10 is stored as 10, one below 0 as 0, and a missing or non-numeric one (a
\* value that is neither a number nor a numeral) as 0.
C4_ScoreClamped ==
    /\ \A i \in DOMAIN feedback : InRange(feedback[i].score)
    /\ (lastDone.outcome = "success" /\ feedback # <<>>) =>
          LET sc == lastDone.score
              stored == feedback[1].score
          IN  /\ (sc.t = "num" /\ Tenths(sc) > 10 * ScoreHigh) => stored = Num(ScoreHigh, 0)
              /\ (sc.t = "num" /\ Tenths(sc) < 10 * ScoreLow) => stored = Num(ScoreLow, 0)
              /\ sc.t \notin {"num", "numeral"} => stored = Num(0, 0)

\* C5: the score of every stored FeedbackRecord is an integer.
C5_ScoreInteger == \A i \in DOMAIN feedback : IsInteger(feedback[i].score)

\* a socket that can still connect or is connected
Live(k) == sockets[k] \in {"connecting", "open"}

\* C6: every close of a socket starts a timer that calls connectWebSocket() 5
\* seconds later, and, the channel not being torn down, every state in which the
\* channel is disconnected is followed by a new call of connectWebSocket() (or
\* the clock of the model has stopped before the pending timer is due).
C6_Reconnects ==
    /\ [][\A k \in 1..MaxSockets : (Live(k) /\ ~Live(k)') =>
             /\ retryRef' # 0
             /\ retryTimers'[retryRef'] = now + RETRY_DELAY]_vars
    /\ \A b \in BOOLEAN :
          (~isConnected /\ attemptBit = b)
              ~> \/ attemptBit # b
                 \/ /\ ticks = ConnTicks
                    /\ \E t \in 1..MaxRetryTimers : retryTimers[t] > now

\* a socket has closed and, 15 seconds or more after the component mounted, the
\* timer of the last close has fired and connectWebSocket() has made a new socket
C6_Retried ==
    /\ ~isConnected
    /\ retryRef # 0
    /\ \A t \in 1..MaxRetryTimers : retryTimers[t] = 0
    /\ sockets[wsRef] = "connecting"
    /\ now >= StartTime + 3 * RETRY_DELAY

\* the payload parses as a status record
IsStatusRecord(payload) ==
    LET parsed == JsonParse(sanitizeInput(payload))
    IN  parsed.ok /\ parsed.v.t = "obj" /\ Prop(parsed.v, KeyType) = JStr(StatusTag)

\* the active value of a status record: data.active !== false
ActiveOf(payload) == Prop(JsonParse(sanitizeInput(payload)).v, KeyActive) # JBool(FALSE)

\* C7: a message that parses as a status record sets the speaking indicator to
\* the active value of the record and leaves the transcript buffer unchanged,
\* whatever other fields the record carries.
C7_StatusOnly ==
    [][(lastMsg'.flip # lastMsg.flip /\ IsStatusRecord(lastMsg'.payload))
          => /\ isTranscribing' = ActiveOf(lastMsg'.payload)
             /\ transcription' = transcription]_vars

\* C8: sanitize is idempotent: what the editor stores, sanitizeInput(value), is
\* left as it is by sanitizeInput.
C8_Idempotent ==
    [][(sessionStarted /\ code' # code) => sanitizeInput(code') = code']_vars

\* C9: a successful evaluation inserts one FeedbackRecord at the head of the
\* feedback buffer and one CodeSnapshot at the head of the snapshot buffer in the
\* same step and sets the availability; neither buffer ever holds a record of
\* a cycle whose other record has not been inserted.
C9_BothInserted ==
    /\ [][(lastDone' # lastDone /\ lastDone'.outcome = "success") =>
             /\ feedback' = <<logF'[Len(logF')]>> \o SliceFirst(feedback, 4)
             /\ snapshots' = <<logS'[Len(logS')]>> \o SliceFirst(snapshots, 9)
             /\ Len(logF') = Len(logF) + 1
             /\ Len(logS') = Len(logS) + 1
             /\ snapshots'[1].code \in {e.code : e \in evals}
             /\ apiServerConnected']_vars
    /\ [](Len(logF) = Len(logS))
    /\ [][(feedback' # feedback /\ feedback' # <<>>) <=>
          (snapshots' # snapshots /\ snapshots' # <<>>)]_vars

\* an evaluation has succeeded after an earlier one
C9_Succeeded ==
    /\ lastDone.outcome = "success"
    /\ Len(feedback) = 2 /\ Len(snapshots) = 2
    /\ apiServerConnected

Failures == {"network", "http", "timeout", "body", "malformed"}

\* C10: an accepted evaluation that fails (network error, timeout, status that
\* is not ok, unreadable or malformed body) sets the availability to false and
\* leaves the transcript, snapshot and feedback buffers as they were.
C10_FailureKeepsBuffers ==
    [][(lastDone' # lastDone /\ lastDone'.outcome \in Failures) =>
          /\ ~apiServerConnected'
          /\ UNCHANGED <<transcription, snapshots, feedback>>]_vars

\* an evaluation has timed out after an earlier one succeeded
C10_Failed ==
    /\ lastDone.outcome = "timeout"
    /\ feedback # <<>>
    /\ ~apiServerConnected

\* the n-th call of requestFeedback() was dispatched and is still in flight
InFlight(n) ==
    /\ n \in DOMAIN calls
    /\ calls[n].outcome = "dispatch"
    /\ \E e \in evals : e.start = calls[n].t

\* C11: every accepted requestFeedback() eventually finishes (response, error
\* or the 15-second timeout), and the evaluating flag is false when no
\* evaluation is in flight.
C11_Finishes ==
    /\ [](evals = {} => ~isEvaluating)
    /\ \A n \in 1..EvalCalls : InFlight(n) ~> ~InFlight(n)

\* the condition under which the scheduler runs
Scheduled == ~isPaused /\ sessionStarted /\ Len(transcription) > 0

\* the interval of the scheduler has fired in this step
TimerStep ==
    /\ Len(calls') = Len(calls) + 1
    /\ calls'[Len(calls')].by = "timer"

\* C12: while the session stays active and unpaused with a non-empty
\* transcript, the scheduler calls requestFeedback() no later than 60 s after
\* the condition began and again every 60 s, whatever happens in between: the
\* interval is pending, due within 60 s, and its due time is moved by nothing
\* but its own firing.
C12_Every60s ==
    /\ [](Scheduled => (feedbackTimer # 0 /\ feedbackTimer <= now + FEEDBACK_INTERVAL))
    /\ [][(Scheduled /\ Scheduled' /\ ~TimerStep) => feedbackTimer' = feedbackTimer]_vars

\* the channel is open: wsRef.current?.readyState === WebSocket.OPEN
ChannelOpen == wsRef # 0 /\ sockets[wsRef] = "open"

\* C13: while the session is paused the scheduler never calls
\* requestFeedback(); pausing or resuming leaves the evaluations in flight (a
\* result that arrives while paused is still put into the buffers) and the
\* connection as they are, and sends pause_session when pausing and
\* resume_session when resuming if the channel is open, nothing otherwise.
C13_PauseOnly ==
    /\ [](isPaused => feedbackTimer = 0)
    /\ [][(isPaused /\ Len(calls') > Len(calls)) => calls'[Len(calls')].by = "button"]_vars
    /\ [][(isPaused' # isPaused) =>
             /\ UNCHANGED <<evals, isEvaluating, snapshots, transcription, feedback>>
             /\ UNCHANGED <<sockets, wsRef, retryTimers, retryRef, isConnected, attemptBit>>
             /\ lastSent' = IF ChannelOpen
                            THEN [type |-> IF isPaused THEN "resume_session" ELSE "pause_session",
                                  flip |-> ~lastSent.flip]
                            ELSE lastSent]_vars
    /\ [][(lastSent' # lastSent /\ lastSent'.type # "session_start")
             => isPaused' # isPaused]_vars
    /\ [][(isPaused /\ lastDone' # lastDone /\ lastDone'.outcome = "success") =>
             /\ Len(logF') = Len(logF) + 1
             /\ feedback'[1] = logF'[Len(logF')]
             /\ snapshots'[1] = logS'[Len(logS')]]_vars

\* the session has been paused, with the channel open, while the evaluation the
\* scheduler had started was in flight
C13_PausedInFlight ==
    /\ isPaused
    /\ lastSent.type = "pause_session"
    /\ Len(calls) = 1
    /\ calls[1].by = "timer"
    /\ evals # {}

\* handleReset runs in this step
ResetStep == sessionStarted /\ ~sessionStarted'

\* C14: a reset leaves the transcript, snapshot and feedback buffers empty and
\* the session inactive, and from then on, until a session is started, no
\* automatic evaluation is scheduled and requestFeedback() is not called.
C14_ResetClears ==
    /\ [][ResetStep => /\ transcription' = <<>>
                       /\ snapshots' = <<>>
                       /\ feedback' = <<>>
                       /\ feedbackTimer' = 0]_vars
    /\ [](~sessionStarted => feedbackTimer = 0)
    /\ [][Len(calls') > Len(calls) => sessionStarted]_vars

\* after a reset (requestFeedback() has been called, the session is inactive)
\* a segment has arrived and no automatic evaluation is scheduled
C14_AfterReset ==
    /\ ~sessionStarted
    /\ calls # <<>>
    /\ Len(transcription) > 0
    /\ snapshots = <<>> /\ feedback = <<>>
    /\ feedbackTimer = 0

C16_NothingAfterTeardown ==
    [][~mounted => /\ attemptBit' = attemptBit
                   /\ probes' \subseteq probes
                   /\ Len(calls') = Len(calls)]_vars

\* a health probe completes in this step
ProbeEnds == Cardinality(probes') < Cardinality(probes)

\* C17: every health probe that completes sets the availability of the
\* evaluation service to true when /health answered with a success status and
\* to false when the request failed, answered with another status or was
\* aborted after 3 s.
C17_ProbeSetsAvailability ==
    [][(mounted /\ ProbeEnds) =>
           /\ lastProbe'.outcome \in ProbeOutcomes
           /\ apiServerConnected' = (lastProbe'.outcome = "ok")
           /\ lastProbe'.outcome = "timeout" => now >= lastProbe'.start + HEALTH_TIMEOUT]_vars

\* the second probe was aborted by its timeout while the first had not ended,
\* and the service is held unavailable
C17_TimedOut ==
    /\ mounted
    /\ lastProbe = [start |-> StartTime + HEALTH_INTERVAL, outcome |-> "timeout"]
    /\ StartTime \in probes
    /\ ~apiServerConnected

\* C18: from the start of the view until its teardown the health poller
\* keeps its 10 s interval running, whatever else happens: the next probe is
\* always due within 10 s.
C18_PollsUntilTeardown ==
    mounted => (healthTimer # 0 /\ healthTimer <= now + HEALTH_INTERVAL)

\* the questions getCurrentQuestion returns when the custom question is c
QuestionsOf(c) ==
    {getCurrentQuestion(q, p, c) : q \in {"leetcode", "custom"}, p \in {JNull, TwoSum}}

\* the questions a payload can carry when the custom question is sanitized,
\* either when it is typed or when the payload is built
SanitizedQuestions ==
    UNION {QuestionsOf(Sanitized(c)) \cup {Sanitized(q) : q \in QuestionsOf(c)} :
               c \in QuestionInputs \cup {EmptyStr}}

\* the code the editor can hold: a typed text as sanitizeInput returned it, or
\* the template written when the session started
StoredCodes ==
    {Sanitized(v) : v \in CodeInputs}
    \cup {CodeTemplate(q, Sanitized(l)) :
              q \in UNION {QuestionsOf(c) : c \in QuestionInputs \cup {EmptyStr}},
              l \in LanguageInputs}

\* C19: the texts the user typed are kept in state as sanitizeInput returned
\* them (the code, the custom question), and the code, the language and the
\* question of every payload dispatched for evaluation are results of
\* sanitizeInput.
C19_AllSanitized ==
    /\ customQuestion \in {Sanitized(v) : v \in QuestionInputs \cup {EmptyStr}}
    /\ sessionStarted => code \in StoredCodes
    /\ \A e \in evals :
           /\ e.code \in {Sanitized(StrTrim(c)) : c \in StoredCodes}
           /\ e.language \in {Sanitized(l) : l \in LanguageInputs}
           /\ e.question \in SanitizedQuestions

\* C20: the rate gate counts from the last accepted request only: a call is
\* turned away by the rate gate only when a call that passed both gates was
\* made less than 2000 ms before it.
C20_RateFromAccepted ==
    \A i \in 1..Len(calls) :
        calls[i].outcome = "rate" =>
            \E j \in 1..(i - 1) : /\ calls[j].outcome \in {"dispatch", "empty"}
                                  /\ calls[i].t - calls[j].t < API_RATE_LIMIT

\* the onerror handler of a socket that is connecting or open runs in this step
\* (under SpecError nothing else leaves a socket closing)
ErrorStep == \E k \in 1..MaxSockets : sockets[k] \in {"connecting", "open"} /\ sockets'[k] = "closing"

\* the onclose handler of a socket runs in this step
CloseStep ==
    \E k \in 1..MaxSockets : sockets[k] \in {"connecting", "open", "closing"}
                              /\ sockets'[k] \in {"closed", "none"}

\* C21 as stated: an error event on its own moves the connection to
\* Disconnected and schedules connect() 5 s later, as a close event does.
C21_ErrorReconnects ==
    [][ErrorStep => /\ ~isConnected'
                    /\ retryRef' # 0
                    /\ retryTimers'[retryRef'] = now + RETRY_DELAY]_vars

\* C21, amended: an error event on its own moves the connection to
\* Disconnected, clears the speaking indicator and schedules nothing; the
\* reconnect 5 s later is scheduled by the close event.
C21_ErrorOnlyDisconnects ==
    /\ [][ErrorStep => /\ ~isConnected' /\ ~isTranscribing'
                        /\ UNCHANGED <<retryTimers, retryRef, wsRef, attemptBit>>]_vars
    /\ [][CloseStep => /\ ~isConnected'
                        /\ retryRef' # 0
                        /\ retryTimers'[retryRef'] = now + RETRY_DELAY]_vars

\* the socket opened at mount was Connected, its error event has been handled
\* and its close event has not: Disconnected with no reconnect pending
C21_ErroredNoRetry ==
    /\ lastSent.type = "session_start"
    /\ wsRef = 1 /\ sockets[1] = "closing"
    /\ ~isConnected
    /\ retryRef = 0
    /\ \A t \in 1..MaxRetryTimers : retryTimers[t] = 0
    /\ now >= StartTime + RETRY_DELAY

\* the text of a message that is not a status record, as the handler is
\* described: the sanitized text, message, transcript or content field of a
\* payload that parses as a record, the sanitized payload when it does not
\* parse, and no text otherwise
DescribedText(payload) ==
    Only({Only({IF ~parsed.ok THEN rawData
                ELSE IF parsed.v.t = "obj" /\ TextField(parsed.v).t = "str"
                THEN sanitizeInput(Str(TextField(parsed.v).s))
                ELSE EmptyStr : parsed \in {JsonParse(rawData)}})
          : rawData \in {sanitizeInput(payload)}})

\* C22: a message that is not a status record appends one segment holding its
\* resolved text to the transcript and sets the speaking indicator exactly
\* when that text is non-empty and shorter than 1000 characters; otherwise the
\* transcript and the indicator are left alone; the connection is unchanged in
\* every case.
C22_SegmentFromText ==
    [][(lastMsg'.flip # lastMsg.flip /\ ~IsStatusRecord(lastMsg'.payload)) =>
          /\ \E t \in {DescribedText(lastMsg'.payload)} :
                 IF StrLen(t) > 0 /\ StrLen(t) < MaxSegmentLen
                 THEN /\ Len(logT') = Len(logT) + 1
                      /\ transcription' # <<>>
                      /\ transcription'[Len(transcription')] = logT'[Len(logT')]
                      /\ logT'[Len(logT')].text = t
                      /\ isTranscribing'
                 ELSE UNCHANGED <<transcription, logT, isTranscribing>>
          /\ UNCHANGED <<isConnected, sockets, wsRef, retryTimers, retryRef>>]_vars

\* C23: the CodeSnapshot of a successful evaluation holds the code field of the
\* payload that was dispatched for that evaluation.
C23_SnapshotIsPayload ==
    [][Len(logS') = Len(logS) + 1 =>
          \E e \in evals \ evals' : snapshots'[1].code = e.payloadCode]_vars

\* C24: an event of a channel that connectWebSocket() has replaced changes
\* neither the connection state nor the transcript, the speaking indicator or
\* the reconnect timer.
C24_OldChannelSilent ==
    [][\A k \in 1..MaxSockets :
          (k # wsRef /\ wsRef' = wsRef /\ sockets'[k] # sockets[k]) =>
              UNCHANGED <<isConnected, transcription, isTranscribing, retryTimers,
                          retryRef>>]_vars

\* C25: the evaluating flag is true exactly when an accepted evaluation is in
\* flight.
C25_FlagIffInFlight == isEvaluating <=> evals # {}

\* C26: no record of an evaluation dispatched before a reset enters the
\* feedback or the snapshot buffer after it: every evaluation in flight while
\* the session is inactive was dispatched before the reset, so the two buffers
\* stay empty until a session is started.
C26_NoStaleRecords == ~sessionStarted => (feedback = <<>> /\ snapshots = <<>>)

\* C27: once the events of the channels have been handled (no socket other
\* than the one wsRef refers to has an event to come), the connectivity
\* indicator is true exactly when the socket wsRef refers to is open.
C27_IndicatorIsChannel ==
    (\A k \in 1..MaxSockets : k # wsRef => sockets[k] = "none")
        => (isConnected <=> ChannelOpen)

\* C28: at any time at most one socket is connecting or open and at most one
\* reconnect timer is pending.
C28_OneChannelOneTimer ==
    /\ Cardinality({k \in 1..MaxSockets : sockets[k] \in {"connecting", "open"}}) <= 1
    /\ Cardinality({t \in 1..MaxRetryTimers : retryTimers[t] # 0}) <= 1

\* C29: a session that has just been started is not paused.
C29_StartsUnpaused == [][(~sessionStarted /\ sessionStarted') => ~isPaused']_vars

\* C30: the speaking indicator is debounced: a turn-false timer that fires
\* does not turn the indicator false while the timer of a later segment is
\* still running (less than 1 s after that segment), nor after a later status
\* record has set it true.
C30_Debounced ==
    [][(speakTimers' # speakTimers /\ speakTimers' \subseteq speakTimers
            /\ isTranscribing /\ ~isTranscribing') =>
          /\ \A d \in speakTimers' : now >= d
          /\ lastMsg.did # "status"]_vars
====
